---- MODULE Spec2Model ----
(***************************************************************************)
(* The output scheduling and buffer lifecycle engine of kms-quads          *)
(* (src/main.c): the per-output buffer hand-off between "pending" and      *)
(* "displayed", the free-buffer search, the completion handler, the        *)
(* repaint handler and the main loop that multiplexes the repaint timers   *)
(* and the KMS event descriptor.                                           *)
(*                                                                         *)
(* The hardware and the kernel are the environment: a committed flip       *)
(* completes at some later time with a timestamp of the hardware's         *)
(* choosing, an armed timer expires, events for CRTCs we do not drive may  *)
(* show up on the descriptor.  The loop observes all of that only while it *)
(* sleeps in poll(), so the environment acts while pc = "poll".            *)
(*                                                                         *)
(* Spec is the loop of a device without explicit fencing, SpecFence the   *)
(* same loop with explicit fencing on the first output: there the fills,   *)
(* the commit and the hand-over after it move fence descriptors between    *)
(* the slots of the output and of its buffers.  SpecFenceGpu is SpecFence  *)
(* with the buffers filled by EGL.  SpecLive is the loop without exit      *)
(* request and failing calls, under fair scheduling.                       *)
(*                                                                         *)
(* Helpers are specified on their own, with their inputs drawn by the      *)
(* initial predicate: fd_replace (SpecFd), the animation progress of       *)
(* repaint_one_output (SpecAnim), the plane geometry written by            *)
(* output_add_atomic_req (SpecGeom), the properties it writes (SpecReq)    *)
(* the fence slots of a buffer under the EGL and the Vulkan fill           *)
(* (SpecFill), the completion handler on early and late frames             *)
(* (SpecDrift), plane_formats_populate (SpecFormats) and the CPU fill of   *)
(* buffer_fill (SpecDumb).                                                 *)
(***************************************************************************)
EXTENDS Integers, Sequences, FiniteSets, TLC

----------------------------------------------------------------------------
(* Bounds of the model. *)

NumOutputs == 2

MaxUnknownEvents == 1

\* fd_replace calls made on the slot.
MaxReplaceCalls == 6

\* Repaints of an output whose progress is computed.
MaxFrames == 2

\* Fills of the buffers of an output by its renderer.
MaxFills == 3

\* Properties the kernel may fail to expose for an output.
MaxMissingProps == 2

----------------------------------------------------------------------------
(* Program constants. *)

BUFFER_QUEUE_DEPTH == 3

NSEC_PER_SEC == 1000000000

NSEC_PER_MSEC == 1000000

RENDER_LEEWAY_NSEC == NSEC_PER_MSEC * 5

Outputs == 1..NumOutputs

Buffers == 1..BUFFER_QUEUE_DEPTH

\* A NULL struct buffer pointer.
NULL == 0

\* poll_fds[device->num_outputs] is the KMS master descriptor.
KmsFdIndex == NumOutputs + 1

\* The CRTC driven by an output; ids of the outputs are distinct.
crtc_id(o) == 40 + o

\* A CRTC id that belongs to none of our outputs.
UnknownCrtc == 99

----------------------------------------------------------------------------
(* Inputs: what the hardware may report. *)

\* Completion timestamps (tv_sec, tv_usec) the kernel may deliver.
Timestamps ==
    { [tv_sec |-> 0, tv_usec |-> 0],
      [tv_sec |-> 1, tv_usec |-> 990000] }

\* The timestamp carried by the events of foreign CRTCs.
UnknownTimestamps == { [tv_sec |-> 1, tv_usec |-> 0] }

\* output->refresh_interval_nsec, the refresh interval of the output's active
\* mode: 16.6 ms on the odd outputs, a 240 Hz mode on the even ones.
refresh_interval_nsec(o) == IF o % 2 = 1 THEN 16600000 ELSE 4166667

----------------------------------------------------------------------------
(* struct timespec and the helpers of timespec-util.h. *)

Timespec(s, n) == [tv_sec |-> s, tv_nsec |-> n]

ZeroTime == Timespec(0, 0)

\* C integer division and remainder truncate towards zero.
CDiv(a, b) == IF a >= 0 THEN a \div b ELSE -((-a) \div b)

CRem(a, b) == a - b * CDiv(a, b)

timespec_to_nsec(a) == a.tv_sec * NSEC_PER_SEC + a.tv_nsec

timespec_sub_to_nsec(a, b) == timespec_to_nsec(a) - timespec_to_nsec(b)

Abs(n) == IF n < 0 THEN -n ELSE n

timespec_add_nsec(a, b) ==
    LET sec  == a.tv_sec + CDiv(b, NSEC_PER_SEC)
        nsec == a.tv_nsec + CRem(b, NSEC_PER_SEC)
    IN  IF nsec >= NSEC_PER_SEC THEN Timespec(sec + 1, nsec - NSEC_PER_SEC)
        ELSE IF nsec < 0 THEN Timespec(sec - 1, nsec + NSEC_PER_SEC)
        ELSE Timespec(sec, nsec)

----------------------------------------------------------------------------
VARIABLES
    needs_repaint,      \* output->needs_repaint
    buffer_pending,     \* output->buffer_pending (index into buffers, or NULL)
    buffer_last,        \* output->buffer_last
    in_use,             \* output->buffers[b]->in_use
    last_frame,         \* output->last_frame
    next_frame,         \* output->next_frame
    repaint_timer,      \* it_value the output's timerfd is armed with; zero = disarmed
    timer_ready,        \* the output's timerfd has expired and is readable
    monotonic_timestamps,  \* device->monotonic_timestamps
    input,              \* main's input collaborator is non-NULL
    shall_exit,         \* the global exit flag
    pc,                 \* position of main
    i,                  \* index of the for loop main is in
    req,                \* the atomic request of this iteration: the buffers
                        \* filled and encoded so far
    needs_modeset,      \* main's needs_modeset of this iteration
    revents,            \* indices of poll_fds with POLLIN in revents
    events,             \* completion events queued on the KMS descriptor
    evbuf,              \* events read by drmHandleEvent, not yet dispatched
    inflight,           \* per output: commits whose flip has not completed
    presented,          \* per output: a commit containing it was submitted
    fatal,              \* the call that has failed in this iteration (or
                        \* at startup); "none" otherwise
    main_ret,           \* the ret of main's outermost scope (line 292)
    exit_status,        \* what main has returned; NoExit while it runs
    target,             \* fd_replace: the descriptor slot *target
    source,             \* fd_replace: the descriptor its caller holds to pass
    fd_open,            \* the descriptors that are open in the process
    fd_arg,             \* the argument of the last fd_replace call
    ebadf,              \* close() calls made on a descriptor that is not open
    calls,              \* fd_replace calls made
    anim_start,         \* main's anim_start
    frame_num,          \* per output: repaints made so far
    anim_progress,      \* per output: the progress last passed to buffer_fill
    mode,               \* output->mode (hdisplay, vdisplay)
    plane_props,        \* the plane geometry properties written to a request
    buffers,            \* per output: the j with output->buffers[j] non-NULL
    destroyed,          \* per buffer: buffer_destroy calls made on it
    explicit_fencing,   \* output->explicit_fencing
    gbm_device,         \* device->gbm_device is non-NULL: EGL renders
    vk_device,          \* the buffers are filled by the Vulkan renderer
    commit_fence_fd,    \* output->commit_fence_fd
    kms_fence_fd,       \* output->buffers[b]->kms_fence_fd
    render_fence_fd,    \* output->buffers[b]->render_fence_fd
    bad_close,          \* a descriptor was closed that its closer did not own
    fence_commit,       \* per output and slot (0: commit_fence_fd, b: the
                        \* kms_fence_fd of buffer b): the buffer put on screen
                        \* by the commit whose out-fence the slot holds
    props,              \* output->props: the properties with a cached id
    req_props,          \* the properties output_add_atomic_req has written
    req_ret,            \* how output_add_atomic_req has ended
    in_formats,         \* the IN_FORMATS blob of the output's primary plane
    modifiers,          \* output->modifiers (num_modifiers is its length)
    formats_done,       \* plane_formats_populate has returned
    fill_boundary       \* per output: the quadrant boundaries (x, y) that
                        \* buffer_fill has last written with the CPU

vars == << needs_repaint, buffer_pending, buffer_last, in_use, last_frame,
           next_frame, repaint_timer, timer_ready, monotonic_timestamps,
           input, shall_exit, pc, i, req,
           needs_modeset, revents, events, evbuf, inflight, presented,
           fatal, main_ret, exit_status, target, source, fd_open, fd_arg,
           ebadf, calls, anim_start, frame_num, anim_progress, mode,
           plane_props, buffers, destroyed, explicit_fencing, gbm_device,
           vk_device, commit_fence_fd, kms_fence_fd, render_fence_fd,
           bad_close, fence_commit, props, req_props, req_ret, in_formats,
           modifiers, formats_done, fill_boundary >>

outputVars == << needs_repaint, buffer_pending, buffer_last, in_use,
                 last_frame, next_frame, repaint_timer, timer_ready >>

\* The state fd_replace works on.
fdVars == << target, source, fd_open, fd_arg, ebadf, calls >>

\* The state of the animation progress computed at a repaint.
animVars == << anim_start, frame_num, anim_progress >>

\* The state of the plane geometry encoding.
geomVars == << mode, plane_props >>

\* The buffer pools of the outputs.
poolVars == << buffers, destroyed >>

\* The fence descriptor slots of the outputs and of their buffers.
fenceVars == << commit_fence_fd, kms_fence_fd, render_fence_fd, bad_close,
               fence_commit >>

\* What the device and its renderer support.
fencingVars == << explicit_fencing, gbm_device, vk_device >>

\* The state of one call of output_add_atomic_req.
reqVars == << props, req_props, req_ret >>

\* The state of plane_formats_populate.
modVars == << in_formats, modifiers, formats_done >>

\* What neither a repaint nor a commit writes.
staticVars == << monotonic_timestamps, input, main_ret, target, source,
                 fd_arg, ebadf, calls, animVars, geomVars, poolVars,
                 fencingVars, reqVars, modVars, fill_boundary >>

\* What only startup, repaint, commit and teardown write.
configVars == << staticVars, fd_open, fenceVars >>

\* The state of main and of its outputs.
loopVars == << outputVars, monotonic_timestamps, input, shall_exit, pc, i,
               req, needs_modeset, revents, events, evbuf, inflight,
               presented, fatal, main_ret, exit_status, poolVars >>

\* The value of exit_status while main has not returned.
NoExit == -1

\* A descriptor slot that holds no descriptor.
NoFd == -1

\* No progress has been passed to buffer_fill yet.
NoProgress == [num |-> 0, den |-> 0]

\* No property has been written.
NoProps == [p \in { "SRC_X", "SRC_Y", "SRC_W", "SRC_H", "CRTC_X", "CRTC_Y",
                    "CRTC_W", "CRTC_H" } |-> [hi |-> -1, lo |-> -1]]

\* The descriptor table before any fence exists.
InitFd ==
    /\ target = NoFd
    /\ source = NoFd
    /\ fd_open = { }
    /\ fd_arg = NoFd
    /\ ebadf = 0
    /\ calls = 0

\* The animation state before the first repaint.
InitAnim ==
    /\ anim_start = ZeroTime
    /\ frame_num = [o \in Outputs |-> 0]
    /\ anim_progress = [o \in Outputs |-> NoProgress]

\* An empty request for an output without a mode.
InitGeom ==
    /\ mode = [hdisplay |-> 0, vdisplay |-> 0]
    /\ plane_props = NoProps

\* No buffer exists before main has created it.
InitPool ==
    /\ buffers = [o \in Outputs |-> { }]
    /\ destroyed = [o \in Outputs |-> [b \in Buffers |-> 0]]

\* output_create and buffer_create leave every fence slot at -1.
InitFences ==
    /\ commit_fence_fd = [o \in Outputs |-> NoFd]
    /\ kms_fence_fd = [o \in Outputs |-> [b \in Buffers |-> NoFd]]
    /\ render_fence_fd = [o \in Outputs |-> [b \in Buffers |-> NoFd]]
    /\ bad_close = FALSE
    /\ fence_commit = [o \in Outputs |-> [k \in 0..BUFFER_QUEUE_DEPTH |-> NULL]]

\* A GPU device whose outputs do without explicit fencing.
InitFencing ==
    /\ explicit_fencing = [o \in Outputs |-> FALSE]
    /\ gbm_device = TRUE
    /\ vk_device = FALSE

\* No request has been encoded.
InitReq ==
    /\ props = { }
    /\ req_props = { }
    /\ req_ret = "none"

\* A plane without IN_FORMATS property.
NoBlob == [formats |-> << >>, modifiers |-> << >>]

\* No buffer has been filled with the CPU.
NoBoundary == [x |-> -1, y |-> -1]

\* output_create before plane_formats_populate: no modifier is stored; no
\* buffer has been filled.
InitMods ==
    /\ in_formats = NoBlob
    /\ modifiers = << >>
    /\ formats_done = FALSE
    /\ fill_boundary = [o \in Outputs |-> NoBoundary]

\* The fields of the outputs that repaint and completion handler exchange.
InitFrames ==
    /\ last_frame = [o \in Outputs |-> ZeroTime]
    /\ next_frame = [o \in Outputs |-> ZeroTime]

\* main and its outputs when main is entered.
InitLoop ==
    /\ needs_repaint = [o \in Outputs |-> TRUE]
    /\ buffer_pending = [o \in Outputs |-> NULL]
    /\ buffer_last = [o \in Outputs |-> NULL]
    /\ in_use = [o \in Outputs |-> [b \in Buffers |-> FALSE]]
    /\ repaint_timer = [o \in Outputs |-> ZeroTime]
    /\ timer_ready = [o \in Outputs |-> FALSE]
    /\ monotonic_timestamps \in BOOLEAN
    /\ input \in BOOLEAN
    /\ shall_exit = FALSE
    /\ pc = "start"
    /\ i = 0
    /\ req = << >>
    /\ needs_modeset = FALSE
    /\ revents = {}
    /\ events = << >>
    /\ evbuf = << >>
    /\ inflight = [o \in Outputs |-> 0]
    /\ presented = [o \in Outputs |-> FALSE]
    /\ fatal = "none"
    /\ main_ret = 0
    /\ exit_status = NoExit

\* What every specification starts from, whatever the device supports.
InitBase ==
    /\ InitLoop /\ InitFrames /\ InitFd /\ InitAnim /\ InitGeom
    /\ InitPool /\ InitFences /\ InitMods

Init == InitBase /\ InitFencing /\ InitReq

----------------------------------------------------------------------------
(* Fence descriptors.  The numbers of the model count from the first       *)
(* descriptor number the process has free once its device, timers and      *)
(* standard streams are open, so a fence descriptor is never number 0 of   *)
(* the process.                                                            *)

\* A replace that closes whatever the slot holds.
ShouldClose_Always(fd) == TRUE

\* if (*target >= 0)
ShouldClose(fd) == fd >= 0

\* The n-th lowest descriptor number that is not in fds: the number the
\* kernel gives to the n-th descriptor it creates from there.
NthFreeFd(fds, n) ==
    CHOOSE x \in 0..(Cardinality(fds) + n) :
        /\ x \notin fds
        /\ Cardinality({ y \in 0..(x - 1) : y \notin fds }) = n - 1

\* The descriptor table after fd_replace has dealt with the old content fd
\* of a slot.
Closed(fds, fd) == IF ShouldClose(fd) THEN fds \ { fd } ELSE fds

\* fd_replace closes a descriptor that is not open (any more).
BadClose(fds, fd) == ShouldClose(fd) /\ fd \notin fds

\* What a fill leaves behind: the two fence slots of the buffer, the
\* descriptor table, and whether it closed or passed on a descriptor that
\* was not open.
FillResult(kms, render, fds, bad) ==
    [kms |-> kms, render |-> render, fds |-> fds, bad |-> bad]

\* The fill of a dumb buffer, and a fill without explicit fencing, touch no
\* fence.
NoFenceFill(o, b) ==
    FillResult(kms_fence_fd[o][b], render_fence_fd[o][b], fd_open, FALSE)

\* buffer_egl_fill: a valid kms_fence_fd is imported into an EGLSync, which
\* takes the descriptor over (the slot is set to -1; EGL closes the
\* descriptor when the sync is destroyed after the wait); after the flush
\* the fence of the rendering is exported with dup_fence_fd and stored with
\* fd_replace(&buffer->render_fence_fd, fd).
buffer_egl_fill(o, b) ==
    LET kms == kms_fence_fd[o][b]
        render == render_fence_fd[o][b]
        waited == IF kms >= 0 THEN fd_open \ { kms } ELSE fd_open
        fd == NthFreeFd(waited, 1)
        dupd == waited \cup { fd }
    IN  IF ~explicit_fencing[o]
        THEN NoFenceFill(o, b)
        ELSE FillResult(NoFd, fd, Closed(dupd, render),
                        (kms >= 0 /\ kms \notin fd_open)
                            \/ BadClose(dupd, render))

\* buffer_vk_fill: isi.fd = dup(kms_fence_fd) creates a descriptor that the
\* next assignment to isi.fd drops; importSemaphoreFdKHR takes kms_fence_fd
\* over (fd -1 stands for a signalled fence; a number that is not open makes
\* the import fail and the fill return false) while the slot keeps its
\* number; render_fence_fd is closed if it is non-zero, which holds for -1
\* and for every fence descriptor, and getSemaphoreFdKHR stores a new one.
buffer_vk_fill(o, b) ==
    LET kms == kms_fence_fd[o][b]
        render == render_fence_fd[o][b]
        dupd == IF kms \in fd_open
                THEN fd_open \cup { NthFreeFd(fd_open, 1) }
                ELSE fd_open
        imported == dupd \ { kms }
        closed == imported \ { render }
        fd == NthFreeFd(closed, 1)
    IN  IF ~explicit_fencing[o]
        THEN NoFenceFill(o, b)
        ELSE IF kms >= 0 /\ kms \notin fd_open
        THEN FillResult(kms, render, dupd, TRUE)
        ELSE FillResult(kms, fd, closed \cup { fd },
                        render >= 0 /\ render \notin imported)

\* buffer_fill: a buffer with a gbm bo is filled by EGL, a dumb buffer by
\* the CPU.
buffer_fill(o, b) ==
    IF gbm_device THEN buffer_egl_fill(o, b) ELSE NoFenceFill(o, b)

\* The commits behind the out-fences of output o once buffer b was filled:
\* a kms_fence_fd the renderer has taken over and reset holds none.
FenceAfterFill(o, b, filled) ==
    [fence_commit[o] EXCEPT ![b] = IF filled.kms = NoFd THEN NULL ELSE @]

\* The same once output_add_atomic_req has closed and reset commit_fence_fd.
FenceAfterEncode(o, b, filled) ==
    [FenceAfterFill(o, b, filled) EXCEPT
        ![0] = IF explicit_fencing[o] THEN NULL ELSE @]

\* A request encoded before the buffer was filled: it carries the fence the
\* buffer had before.
FenceToEncode_BeforeFill(o, b, filled) == render_fence_fd[o][b]

\* buffer->render_fence_fd as output_add_atomic_req reads it: the fill has
\* returned by then.
FenceToEncode(o, b, filled) == filled.render

\* The value output_add_atomic_req writes to IN_FENCE_FD; NoFd when it makes
\* no such write.
InFence(o, fence) ==
    IF explicit_fencing[o] /\ fence >= 0 THEN fence ELSE NoFd

\* output_add_atomic_req asks for an out-fence.
OutFence(o) == explicit_fencing[o]

----------------------------------------------------------------------------
(* The buffer pool. *)

\* A scan that returns buffers[0] without looking at in_use.
find_free_buffer_First(o) == 1

\* A scan that runs from the end of the array.
find_free_buffer_Reverse(o) ==
    IF \E b \in Buffers : ~in_use[o][b]
    THEN CHOOSE b \in Buffers :
            /\ ~in_use[o][b]
            /\ \A c \in Buffers : c > b => in_use[o][c]
    ELSE NULL

\* A pool used round-robin: the buffer after the displayed one.
find_free_buffer_Rotate(o) ==
    IF buffer_last[o] = NULL THEN 1
    ELSE (buffer_last[o] % BUFFER_QUEUE_DEPTH) + 1

\* The linear scan of find_free_buffer; NULL stands for reaching the
\* assertion after the loop.
find_free_buffer(o) ==
    IF \E b \in Buffers : ~in_use[o][b]
    THEN CHOOSE b \in Buffers :
            /\ ~in_use[o][b]
            /\ \A c \in Buffers : c < b => in_use[o][c]
    ELSE NULL

----------------------------------------------------------------------------
(* The completion handler. *)

\* A lookup that falls back to the first output when no CRTC id matches.
FindOutput_Fallback(crtc) ==
    IF \E o \in Outputs : crtc_id(o) = crtc
    THEN CHOOSE o \in Outputs : crtc_id(o) = crtc
    ELSE 1

\* A lookup that stops at the first output without comparing CRTC ids.
FindOutput_First(crtc) ==
    IF \E o \in Outputs : crtc_id(o) = crtc THEN 1 ELSE NULL

\* The loop over device->outputs that finds the output of a CRTC id;
\* NULL when no output matches.
FindOutput(crtc) ==
    IF \E o \in Outputs : crtc_id(o) = crtc
    THEN CHOOSE o \in Outputs :
            /\ crtc_id(o) = crtc
            /\ \A p \in Outputs : p < o => crtc_id(p) # crtc
    ELSE NULL

\* struct timespec completion = { tv_sec, tv_usec * 1000 }; the product is
\* computed in unsigned int, which a valid tv_usec (< 10^6) cannot overflow.
Completion(ev) == Timespec(ev.tv_sec, ev.tv_usec * 1000)

\* A hand-off that never releases the displayed buffer.
ReleaseLast_Keep(o) == in_use[o]

\* A hand-off that releases the pending buffer instead of the displayed one.
ReleaseLast_Pending(o) ==
    IF buffer_last[o] # NULL /\ buffer_pending[o] # NULL
    THEN [in_use[o] EXCEPT ![buffer_pending[o]] = FALSE]
    ELSE in_use[o]

\* A hand-off that releases the displayed buffer and the pending one.
ReleaseLast_Both(o) ==
    IF buffer_last[o] # NULL
    THEN [b \in Buffers |->
             in_use[o][b] /\ b \notin { buffer_last[o], buffer_pending[o] }]
    ELSE in_use[o]

\* The in_use flags of the output's buffers after buffer_last was released.
ReleaseLast(o) ==
    IF buffer_last[o] # NULL
    THEN [in_use[o] EXCEPT ![buffer_last[o]] = FALSE]
    ELSE in_use[o]

\* A hand-off that clears buffer_last and never sets it again.
PromotePending_Drop(o) == NULL

\* A hand-off that clears the displayed buffer once one exists.
PromotePending_Clear(o) ==
    IF buffer_last[o] # NULL THEN NULL ELSE buffer_pending[o]

\* buffer_last after the hand-off: the buffer that was pending.
PromotePending(o) == buffer_pending[o]

\* #define FRAME_TIMING_TOLERANCE (NSEC_PER_SEC / 2000)
FRAME_TIMING_TOLERANCE == NSEC_PER_SEC \div 2000

\* delta_nsec: from the predicted to the actual completion time.
FrameDelta(o, completion) == timespec_sub_to_nsec(completion, next_frame[o])

\* The condition under which the handler logs the frame as EARLY or LATE.
FrameDrift(o, completion) ==
    /\ timespec_to_nsec(last_frame[o]) # 0
    /\ Abs(FrameDelta(o, completion)) > FRAME_TIMING_TOLERANCE

\* A prediction that makes up for a frame that came early or late: it is
\* advanced from the previous prediction when the completion missed it.
PredictNextFrame_Compensate(o, completion) ==
    IF FrameDrift(o, completion)
    THEN timespec_add_nsec(next_frame[o], refresh_interval_nsec(o))
    ELSE timespec_add_nsec(completion, refresh_interval_nsec(o))

\* A prediction advanced from the previous prediction instead of from the
\* completion time.
PredictNextFrame_Drift(o, completion) ==
    timespec_add_nsec(next_frame[o], refresh_interval_nsec(o))

\* The predicted completion time of the next frame.
PredictNextFrame(o, completion) ==
    timespec_add_nsec(completion, refresh_interval_nsec(o))

\* The it_value the repaint timer is set to.
RepaintTime(o, next) ==
    IF monotonic_timestamps
    THEN timespec_add_nsec(next, -RENDER_LEEWAY_NSEC)
    ELSE Timespec(0, 1)

\* timerfd_settime(fd, TFD_TIMER_ABSTIME, &t): a zero it_value disarms, a
\* negative tv_sec is rejected with EINVAL and leaves the timer as it was.
timerfd_settime(old, t) == IF t.tv_sec < 0 THEN old ELSE t

\* The assertions on entry of the hand-off.
HandlerAsserts(o) ==
    /\ buffer_pending[o] # NULL
    /\ in_use[o][buffer_pending[o]]
    /\ buffer_last[o] # NULL => in_use[o][buffer_last[o]]
    /\ (explicit_fencing[o] /\ buffer_last[o] # NULL
            /\ kms_fence_fd[o][buffer_last[o]] >= 0)
          => kms_fence_fd[o][buffer_last[o]] \in fd_open
    /\ (explicit_fencing[o] /\ gbm_device)
          => render_fence_fd[o][buffer_pending[o]] \in fd_open

atomic_event_handler ==
    /\ pc = "events"
    /\ evbuf # << >>
    /\ LET ev == Head(evbuf)
           o == FindOutput(ev.crtc_id)
           completion == Completion(ev)
           next == PredictNextFrame(o, completion)
           after == IF Tail(evbuf) = << >> THEN "input" ELSE "events"
       IN  /\ evbuf' = Tail(evbuf)
           /\ IF o = NULL
              THEN /\ pc' = after
                   /\ UNCHANGED outputVars
              ELSE IF ~HandlerAsserts(o)
              THEN /\ pc' = "abort"
                   /\ last_frame' = [last_frame EXCEPT ![o] = completion]
                   /\ UNCHANGED << needs_repaint, buffer_pending, buffer_last,
                                   in_use, next_frame, repaint_timer,
                                   timer_ready >>
              ELSE /\ pc' = after
                   /\ last_frame' = [last_frame EXCEPT ![o] = completion]
                   /\ in_use' = [in_use EXCEPT ![o] = ReleaseLast(o)]
                   /\ buffer_last' = [buffer_last EXCEPT ![o] = PromotePending(o)]
                   /\ buffer_pending' = [buffer_pending EXCEPT ![o] = NULL]
                   /\ next_frame' = [next_frame EXCEPT ![o] = next]
                   /\ repaint_timer' = [repaint_timer EXCEPT ![o] =
                          timerfd_settime(repaint_timer[o], RepaintTime(o, next))]
                   /\ timer_ready' = [timer_ready EXCEPT ![o] =
                          IF RepaintTime(o, next).tv_sec < 0
                          THEN timer_ready[o] ELSE FALSE]
                   /\ UNCHANGED needs_repaint
    /\ UNCHANGED << configVars, shall_exit, i, req, needs_modeset,
                    revents, events, inflight, presented >>
    /\ UNCHANGED << fatal, exit_status >>

----------------------------------------------------------------------------
(* The repaint handler. *)

\* The output has not completed a frame yet, as repaint_one_output sees it.
FirstFrame(o) == timespec_to_nsec(last_frame[o]) = 0

\* A loop that repaints every output in every iteration.
RepaintDue_Always(o) == TRUE

\* The condition under which main repaints an output.
RepaintDue(o) == needs_repaint[o]

\* A repaint that does not mark the buffer it commits.
MarkInUse_Skip(o, buffer) == in_use[o]

\* buffer->in_use = true;
MarkInUse(o, buffer) == [in_use[o] EXCEPT ![buffer] = TRUE]

\* A repaint that leaves the output flagged.
RepaintDone_Keep(o) == needs_repaint[o]

\* output->needs_repaint = false;
RepaintDone(o) == FALSE

\* The for loop of main has reached output o: the outputs between the loop
\* index and o are not due and are passed over.
LoopReaches(o) ==
    /\ i \in Outputs
    /\ i <= o
    /\ \A p \in Outputs : (i <= p /\ p < o) => ~RepaintDue(p)

repaint_one_output(o) ==
    /\ pc = "repaint"
    /\ LoopReaches(o)
    /\ RepaintDue(o)
    /\ LET buffer == find_free_buffer(o)
       IN  IF buffer = NULL
           THEN /\ pc' = "abort"
                /\ UNCHANGED << needs_repaint, buffer_pending, in_use, i, req,
                                needs_modeset, fd_open, fenceVars >>
           ELSE LET filled == buffer_fill(o, buffer)
                    fence == FenceToEncode(o, buffer, filled)
                IN  /\ needs_modeset' = (needs_modeset \/ FirstFrame(o))
                    /\ req' = Append(req, [output |-> o, fb |-> buffer,
                                           in_fence |-> InFence(o, fence),
                                           out_fence |-> OutFence(o)])
                    /\ kms_fence_fd' =
                           [kms_fence_fd EXCEPT ![o][buffer] = filled.kms]
                    /\ render_fence_fd' =
                           [render_fence_fd EXCEPT ![o][buffer] = filled.render]
                    /\ commit_fence_fd' =
                           [commit_fence_fd EXCEPT
                               ![o] = IF OutFence(o) THEN NoFd ELSE @]
                    /\ fence_commit' =
                           [fence_commit EXCEPT
                               ![o] = FenceAfterEncode(o, buffer, filled)]
                    /\ fd_open' =
                           IF OutFence(o)
                           THEN Closed(filled.fds, commit_fence_fd[o])
                           ELSE filled.fds
                    /\ bad_close' =
                           (bad_close \/ filled.bad
                              \/ (OutFence(o)
                                    /\ BadClose(filled.fds, commit_fence_fd[o])))
                    /\ in_use' = [in_use EXCEPT ![o] = MarkInUse(o, buffer)]
                    /\ buffer_pending' = [buffer_pending EXCEPT ![o] = buffer]
                    /\ needs_repaint' =
                           [needs_repaint EXCEPT ![o] = RepaintDone(o)]
                    /\ i' = o + 1
                    /\ pc' = pc
    /\ UNCHANGED << buffer_last, last_frame, next_frame, repaint_timer,
                    timer_ready, staticVars, shall_exit, revents, events,
                    evbuf, inflight, presented >>
    /\ UNCHANGED << fatal, exit_status >>

----------------------------------------------------------------------------------------------------------------------------------------
(* The main loop.  Locals of an iteration (req, needs_modeset, the loop      *)
(* index, revents, the events read) hold their initial value outside their  *)
(* scope.                                                                    *)

\* The calls of main before the loop that can fail.
StartupCalls ==
    { "device_create", "input_create", "output_egl_setup", "buffer_create",
      "clock_gettime" }

\* What main returns or stores in ret when a call before the loop fails:
\* device_create and input_create return 1 at once, the others store their
\* code in ret and jump to the teardown.
StartupCode(call) ==
    CASE call = "device_create"    -> 1
      [] call = "input_create"     -> 1
      [] call = "output_egl_setup" -> 2
      [] call = "buffer_create"    -> 3
      [] call = "clock_gettime"    -> 4

\* output->buffers of every output when the call failed fails for output fo
\* (and, for buffer_create, for its buffer fj): the loop over the outputs
\* sets up EGL and then creates the three buffers of one output after the
\* other, and stops at the first failure.
CreatedBefore(failed, fo, fj) ==
    [o \in Outputs |->
        CASE failed \in { "none", "clock_gettime" } -> Buffers
          [] failed \in { "device_create", "input_create" } -> { }
          [] failed = "output_egl_setup" ->
                IF o < fo THEN Buffers ELSE { }
          [] failed = "buffer_create" ->
                IF o < fo THEN Buffers
                ELSE IF o = fo THEN 1..(fj - 1)
                ELSE { }]

\* main up to the loop: create the device and the input, set up the outputs
\* and their buffers, take the animation start time.  failed is the call
\* that fails, "none" when all succeed; input_create is only called in a
\* build with input.
Startup(failed) ==
    /\ pc = "start"
    /\ failed = "input_create" => input
    /\ failed = "output_egl_setup" => gbm_device
    /\ fatal' = failed
    /\ \E fo \in Outputs, fj \in Buffers :
          /\ failed # "buffer_create" => fj = 1
          /\ failed \notin { "buffer_create", "output_egl_setup" } => fo = 1
          /\ buffers' = CreatedBefore(failed, fo, fj)
    /\ IF failed = "none"
       THEN /\ pc' = "loop"
            /\ UNCHANGED << main_ret, exit_status >>
       ELSE IF failed \in { "device_create", "input_create" }
       THEN /\ pc' = "done"
            /\ exit_status' = StartupCode(failed)
            /\ UNCHANGED main_ret
       ELSE /\ pc' = "out"
            /\ main_ret' = StartupCode(failed)
            /\ UNCHANGED exit_status
    /\ UNCHANGED << outputVars, monotonic_timestamps, input, shall_exit, i,
                    req, needs_modeset, revents, events, evbuf, inflight,
                    presented, fdVars, animVars, geomVars, destroyed,
                    fenceVars, fencingVars, reqVars, modVars, fill_boundary >>

\* while (!shall_exit): a new iteration allocates an empty request.
LoopEnter ==
    /\ pc = "loop"
    /\ ~shall_exit
    /\ pc' = "repaint"
    /\ i' = 1
    /\ req' = << >>
    /\ needs_modeset' = FALSE
    /\ fatal' = "none"
    /\ UNCHANGED << outputVars, configVars, shall_exit, revents, events,
                    evbuf, inflight, presented >>
    /\ UNCHANGED exit_status

LoopExit ==
    /\ pc = "loop"
    /\ shall_exit
    /\ pc' = "out"
    /\ UNCHANGED << outputVars, configVars, shall_exit, i, req,
                    needs_modeset, revents, events, evbuf, inflight,
                    presented >>
    /\ UNCHANGED << fatal, exit_status >>

\* The outputs whose state is in the request.
ReqOutputs == { req[k].output : k \in 1..Len(req) }

\* How many entries of the request belong to an output.
ReqCount(o) == Cardinality({ k \in 1..Len(req) : req[k].output = o })

\* Results of drmModeAtomicCommit: 0, or a negative errno.
CommitResults == { 0, -1 }

\* A loop over the outputs that can be left before it has reached the last
\* output.
RepaintLoopDone_Early == i \in 1..(NumOutputs + 1)

\* The for loop of main over the outputs has ended: no output from the loop
\* index on is due.
RepaintLoopDone ==
    /\ i \in 1..(NumOutputs + 1)
    /\ \A p \in Outputs : i <= p => ~RepaintDue(p)

\* The flag atomic_commit is called with.
AllowModeset == needs_modeset

\* A loop that carries on after a rejected commit.
CommitFailed_Ignored(ret) == FALSE

\* if (ret != 0) { ...; break; }
CommitFailed(ret) == ret # 0

\* The outputs whose part of the request asks for an out-fence.
OutFenceOutputs == { req[k].output : k \in { j \in 1..Len(req) : req[j].out_fence } }

\* The out-fence descriptor the kernel creates for output o when it accepts
\* the request: the CRTCs are served in the order of the outputs.
KernelFence(o) ==
    NthFreeFd(fd_open, Cardinality({ p \in OutFenceOutputs : p <= o }))

\* commit_fence_fd of every output once atomic_commit has returned ret: the
\* kernel stores an out-fence through each OUT_FENCE_PTR of an accepted
\* request.
AfterCommit(ret) ==
    [o \in Outputs |->
        IF ret = 0 /\ o \in OutFenceOutputs
        THEN KernelFence(o)
        ELSE commit_fence_fd[o]]

\* The buffer of output o in the request.
ReqBuffer(o) == req[CHOOSE k \in 1..Len(req) : req[k].output = o].fb

\* The commits behind the out-fences once atomic_commit has returned ret:
\* the out-fence of an accepted request belongs to the commit of the
\* buffers in the request.
CommitOf(ret) ==
    [o \in Outputs |->
        IF ret = 0 /\ o \in OutFenceOutputs
        THEN [fence_commit[o] EXCEPT ![0] = ReqBuffer(o)]
        ELSE fence_commit[o]]

\* The descriptor table once atomic_commit has returned ret.
OpenAfterCommit(ret) ==
    fd_open \cup { AfterCommit(ret)[o] : o \in { p \in OutFenceOutputs : ret = 0 } }

\* A loop that never hands an out-fence to a buffer.
TransferDue_Never(o, cf) == FALSE

\* A hand-over that waits until the commit has completed.
TransferDue_AfterFlip(o, cf) ==
    /\ explicit_fencing[o]
    /\ cf[o] >= 0
    /\ buffer_last[o] # NULL
    /\ buffer_pending[o] = NULL

\* if (output->explicit_fencing && output->commit_fence_fd >= 0 &&
\*     output->buffer_last)
TransferDue(o, cf) ==
    /\ explicit_fencing[o]
    /\ cf[o] >= 0
    /\ buffer_last[o] # NULL

\* A hand-over that leaves the descriptor in commit_fence_fd as well.
HandedOver_Keep(o, cf) == cf[o]

\* output->commit_fence_fd = -1;
HandedOver(o, cf) == NoFd

\* The loop after the commit: the out-fence of every output that has one
\* and has a displayed buffer is moved into that buffer's kms_fence_fd with
\* fd_replace, and commit_fence_fd is set to -1.  cf, fc and fds are the
\* out-fences, their commits and the descriptor table the commit has left.
FenceTransfer(cf, fc, fds) ==
    LET due == { o \in Outputs : TransferDue(o, cf) }
        old(o) == kms_fence_fd[o][buffer_last[o]]
    IN  /\ commit_fence_fd' =
               [o \in Outputs |-> IF o \in due THEN HandedOver(o, cf) ELSE cf[o]]
        /\ kms_fence_fd' =
               [o \in Outputs |->
                   IF o \in due
                   THEN [kms_fence_fd[o] EXCEPT ![buffer_last[o]] = cf[o]]
                   ELSE kms_fence_fd[o]]
        /\ fd_open' = fds \ { old(o) : o \in { p \in due : ShouldClose(old(p)) } }
        /\ bad_close' =
               (bad_close \/ \E o \in due : BadClose(fds, old(o)))
        /\ fence_commit' =
               [o \in Outputs |->
                   IF o \in due
                   THEN [fc[o] EXCEPT ![buffer_last[o]] = fc[o][0],
                                      ![0] = NULL]
                   ELSE fc[o]]
        /\ UNCHANGED render_fence_fd

\* if (output_count) ret = atomic_commit(device, req, needs_modeset);
\* a rejected commit leaves the loop, an accepted one makes the kernel owe
\* one completion event for every CRTC in the request and is followed by
\* the hand-over of the out-fences.
atomic_commit(ret) ==
    /\ pc = "repaint"
    /\ RepaintLoopDone
    /\ Len(req) > 0
    /\ IF ret # 0
       THEN /\ fatal' = "atomic_commit"
            /\ UNCHANGED << inflight, presented >>
       ELSE /\ UNCHANGED fatal
            /\ inflight' = [o \in Outputs |-> inflight[o] + ReqCount(o)]
            /\ presented' = [o \in Outputs |-> presented[o] \/ o \in ReqOutputs]
    /\ pc' = IF CommitFailed(ret) THEN "out" ELSE "poll"
    /\ IF CommitFailed(ret)
       THEN /\ commit_fence_fd' = AfterCommit(ret)
            /\ fd_open' = OpenAfterCommit(ret)
            /\ fence_commit' = CommitOf(ret)
            /\ UNCHANGED << kms_fence_fd, render_fence_fd, bad_close >>
       ELSE FenceTransfer(AfterCommit(ret), CommitOf(ret),
                          OpenAfterCommit(ret))
    /\ i' = 0
    /\ req' = << >>
    /\ needs_modeset' = FALSE
    /\ UNCHANGED << outputVars, staticVars, shall_exit, revents, events,
                    evbuf >>
    /\ UNCHANGED exit_status

\* No output was repainted: nothing is submitted; the hand-over of the
\* out-fences runs all the same.
CommitSkip ==
    /\ pc = "repaint"
    /\ RepaintLoopDone
    /\ Len(req) = 0
    /\ pc' = "poll"
    /\ FenceTransfer(commit_fence_fd, fence_commit, fd_open)
    /\ i' = 0
    /\ needs_modeset' = FALSE
    /\ UNCHANGED << outputVars, staticVars, shall_exit, req, revents, events,
                    evbuf, inflight, presented >>
    /\ UNCHANGED << fatal, exit_status >>

\* The descriptors poll() would report readable.
Readable ==
    { o \in Outputs : timer_ready[o] }
        \cup (IF events # << >> THEN { KmsFdIndex } ELSE { })

\* poll(poll_fds, num_poll_fds, -1) returns once a descriptor is readable.
PollReturn ==
    /\ pc = "poll"
    /\ Readable # { }
    /\ revents' = Readable
    /\ pc' = "dispatch"
    /\ i' = 1
    /\ UNCHANGED << outputVars, configVars, shall_exit, req, needs_modeset,
                    events, evbuf, inflight, presented >>
    /\ UNCHANGED << fatal, exit_status >>

\* poll() fails (e.g. with EINTR, interrupted by a signal): the loop is left.
PollFail ==
    /\ pc = "poll"
    /\ pc' = "out"
    /\ fatal' = "poll"
    /\ UNCHANGED << outputVars, configVars, shall_exit, i, req,
                    needs_modeset, revents, events, evbuf, inflight,
                    presented >>
    /\ UNCHANGED exit_status

\* The for loop over poll_fds has reached descriptor k: the descriptors
\* between the loop index and k are not readable and are passed over.
DispatchReaches(k) ==
    /\ i \in 1..KmsFdIndex
    /\ i <= k
    /\ \A j \in 1..KmsFdIndex : (i <= j /\ j < k) => j \notin revents

\* A dispatch that leaves the timer armed as it was.
DisarmedTimer_Keep(o) == repaint_timer[o]

\* static const struct itimerspec its: a zero it_value, which disarms.
DisarmedTimer(o) == ZeroTime

\* A repaint timer is readable: flag the output and disarm the timer; a
\* failing timerfd_settime jumps to the teardown.
TimerDispatch(o, ok) ==
    /\ pc = "dispatch"
    /\ DispatchReaches(o)
    /\ o \in revents
    /\ needs_repaint' = [needs_repaint EXCEPT ![o] = TRUE]
    /\ IF ok
       THEN /\ repaint_timer' = [repaint_timer EXCEPT ![o] = DisarmedTimer(o)]
            /\ timer_ready' = [timer_ready EXCEPT ![o] = FALSE]
            /\ i' = o + 1
            /\ pc' = pc
            /\ UNCHANGED << revents, fatal >>
       ELSE /\ pc' = "out"
            /\ i' = 0
            /\ revents' = { }
            /\ fatal' = "timerfd_settime"
            /\ UNCHANGED << repaint_timer, timer_ready >>
    /\ UNCHANGED << buffer_pending, buffer_last, in_use, last_frame,
                    next_frame, configVars, shall_exit, req, needs_modeset,
                    events, evbuf, inflight, presented >>
    /\ UNCHANGED exit_status

\* The for loop ends without the KMS descriptor being readable.
DispatchDone ==
    /\ pc = "dispatch"
    /\ DispatchReaches(KmsFdIndex)
    /\ KmsFdIndex \notin revents
    /\ pc' = "input"
    /\ i' = 0
    /\ revents' = { }
    /\ UNCHANGED << outputVars, configVars, shall_exit, req, needs_modeset,
                    events, evbuf, inflight, presented >>
    /\ UNCHANGED << fatal, exit_status >>

\* drmHandleEvent(device->kms_fd, &evctx): reads the queued events and calls
\* the handler for each; on a read error the for loop is left.
drmHandleEvent(ok) ==
    /\ pc = "dispatch"
    /\ DispatchReaches(KmsFdIndex)
    /\ KmsFdIndex \in revents
    /\ IF ok
       THEN /\ evbuf' = events
            /\ events' = << >>
            /\ pc' = "events"
            /\ UNCHANGED fatal
       ELSE /\ pc' = "input"
            /\ fatal' = "drmHandleEvent"
            /\ UNCHANGED << evbuf, events >>
    /\ i' = 0
    /\ revents' = { }
    /\ UNCHANGED << outputVars, configVars, shall_exit, req, needs_modeset,
                    inflight, presented >>
    /\ UNCHANGED exit_status

\* if (input) shall_exit = input_was_ESC_key_pressed(input);
InputCheck(esc) ==
    /\ pc = "input"
    /\ shall_exit' = IF input THEN esc ELSE shall_exit
    /\ pc' = "loop"
    /\ UNCHANGED << outputVars, configVars, i, req, needs_modeset, revents,
                    events, evbuf, inflight, presented >>
    /\ UNCHANGED << fatal, exit_status >>

\* An output_destroy that destroys all three entries of output->buffers.
ShouldDestroy_Always(o, b) == TRUE

\* if (output->buffers[i]) buffer_destroy(output->buffers[i]);
ShouldDestroy(o, b) == b \in buffers[o]

\* out: input_destroy, device_destroy (which destroys the outputs and their
\* buffers), return ret: the ret in scope at the label is the one of main's
\* outermost block.  The slots of the fences go with the buffers, and the
\* descriptors that are still open are closed when the process ends.
Teardown ==
    /\ pc = "out"
    /\ pc' = "done"
    /\ exit_status' = main_ret
    /\ needs_repaint' = [o \in Outputs |-> FALSE]
    /\ buffer_pending' = [o \in Outputs |-> NULL]
    /\ buffer_last' = [o \in Outputs |-> NULL]
    /\ in_use' = [o \in Outputs |-> [b \in Buffers |-> FALSE]]
    /\ last_frame' = [o \in Outputs |-> ZeroTime]
    /\ next_frame' = [o \in Outputs |-> ZeroTime]
    /\ repaint_timer' = [o \in Outputs |-> ZeroTime]
    /\ timer_ready' = [o \in Outputs |-> FALSE]
    /\ events' = << >>
    /\ evbuf' = << >>
    /\ inflight' = [o \in Outputs |-> 0]
    /\ destroyed' =
           [o \in Outputs |-> [b \in Buffers |->
               IF ShouldDestroy(o, b) THEN destroyed[o][b] + 1
               ELSE destroyed[o][b]]]
    /\ commit_fence_fd' = [o \in Outputs |-> NoFd]
    /\ kms_fence_fd' = [o \in Outputs |-> [b \in Buffers |-> NoFd]]
    /\ render_fence_fd' = [o \in Outputs |-> [b \in Buffers |-> NoFd]]
    /\ fence_commit' =
           [o \in Outputs |-> [k \in 0..BUFFER_QUEUE_DEPTH |-> NULL]]
    /\ fd_open' = { }
    /\ UNCHANGED << monotonic_timestamps, input, main_ret, target, source,
                    fd_arg, ebadf, calls, animVars, geomVars, buffers,
                    fencingVars, reqVars, modVars, fill_boundary, bad_close, shall_exit, i, req,
                    needs_modeset, revents, presented, fatal >>

\* SIGINT sets the exit flag.  main reads the flag only at the loop condition
\* and overwrites it at the input check, so a signal delivered during an
\* iteration without interrupting poll() acts like one delivered right before
\* the input check; one that interrupts poll() is part of PollFail.
sighandler ==
    /\ pc \in { "loop", "input" }
    /\ ~shall_exit
    /\ shall_exit' = TRUE
    /\ UNCHANGED << outputVars, configVars, pc, i, req, needs_modeset,
                    revents, events, evbuf, inflight, presented >>
    /\ UNCHANGED << fatal, exit_status >>

-----
(* The environment, acting while main sleeps in poll(). *)

\* The hardware completes a committed flip of an output and the kernel queues
\* the completion event with the timestamp of the flip.
FlipComplete(o, ts) ==
    /\ pc = "poll"
    /\ inflight[o] > 0
    /\ inflight' = [inflight EXCEPT ![o] = inflight[o] - 1]
    /\ events' = Append(events, [crtc_id |-> crtc_id(o),
                                 tv_sec |-> ts.tv_sec,
                                 tv_usec |-> ts.tv_usec])
    /\ UNCHANGED << outputVars, configVars, shall_exit, pc, i, req,
                    needs_modeset, revents, evbuf, presented >>
    /\ UNCHANGED << fatal, exit_status >>

\* An armed repaint timer expires.
TimerExpire(o) ==
    /\ pc = "poll"
    /\ repaint_timer[o] # ZeroTime
    /\ ~timer_ready[o]
    /\ timer_ready' = [timer_ready EXCEPT ![o] = TRUE]
    /\ UNCHANGED << needs_repaint, buffer_pending, buffer_last, in_use,
                    last_frame, next_frame, repaint_timer, configVars,
                    shall_exit, pc, i, req, needs_modeset, revents,
                    events, evbuf, inflight, presented >>
    /\ UNCHANGED << fatal, exit_status >>

UnknownQueued ==
    Cardinality({ k \in 1..Len(events) : events[k].crtc_id = UnknownCrtc })

\* A completion event for a CRTC that belongs to none of our outputs.  The
\* handler drops such an event without reading or writing any state, so its
\* place among the other events of a read makes no difference: it is queued
\* ahead of them.
UnknownEvent(ts) ==
    /\ pc = "poll"
    /\ UnknownQueued < MaxUnknownEvents
    /\ UnknownQueued = Len(events)
    /\ events' = Append(events, [crtc_id |-> UnknownCrtc,
                                 tv_sec |-> ts.tv_sec,
                                 tv_usec |-> ts.tv_usec])
    /\ UNCHANGED << outputVars, configVars, shall_exit, pc, i, req,
                    needs_modeset, revents, evbuf, inflight, presented >>
    /\ UNCHANGED << fatal, exit_status >>

----------------------------------------------------------------------------
Next ==
    \/ \E failed \in StartupCalls \cup { "none" } : Startup(failed)
    \/ LoopEnter
    \/ LoopExit
    \/ \E o \in Outputs : repaint_one_output(o)
    \/ \E ret \in CommitResults : atomic_commit(ret)
    \/ CommitSkip
    \/ PollReturn
    \/ PollFail
    \/ \E o \in Outputs, ok \in BOOLEAN : TimerDispatch(o, ok)
    \/ DispatchDone
    \/ \E ok \in BOOLEAN : drmHandleEvent(ok)
    \/ atomic_event_handler
    \/ \E esc \in BOOLEAN : InputCheck(esc)
    \/ Teardown
    \/ sighandler
    \/ \E o \in Outputs, ts \in Timestamps : FlipComplete(o, ts)
    \/ \E o \in Outputs : TimerExpire(o)
    \/ \E ts \in UnknownTimestamps : UnknownEvent(ts)

Spec == Init /\ [][Next]_vars

----------------------------------------------------------------------------
(* fd_replace on its own: one descriptor slot, the descriptor table of the  *)
(* process and a caller that obtains fence descriptors and passes them on.  *)

\* The lowest descriptor number that is not open: the number the kernel
\* gives to the next descriptor it creates.
LowestFreeFd ==
    CHOOSE n \in 0..Cardinality(fd_open) :
        /\ n \notin fd_open
        /\ \A m \in 0..(n - 1) : m \in fd_open

\* The kernel creates a fence descriptor and hands it to the caller.
OpenFence ==
    /\ source = NoFd
    /\ source' = LowestFreeFd
    /\ fd_open' = fd_open \cup { LowestFreeFd }
    /\ UNCHANGED << target, fd_arg, ebadf, calls, loopVars, animVars,
                    geomVars, fenceVars, fencingVars, reqVars, modVars, fill_boundary >>

\* What a caller may pass: no descriptor, the descriptor it holds, or the
\* descriptor the slot already stores.
FdArgs == { NoFd, source, target }

\* fd_replace(&target, arg); a caller that passes the descriptor it holds
\* gives up its own copy (as main does with commit_fence_fd).  close() of a
\* number that is not open fails with EBADF.
fd_replace(arg) ==
    /\ calls < MaxReplaceCalls
    /\ IF ShouldClose(target)
       THEN /\ fd_open' = fd_open \ { target }
            /\ ebadf' = IF target \in fd_open THEN ebadf ELSE ebadf + 1
       ELSE UNCHANGED << fd_open, ebadf >>
    /\ target' = arg
    /\ fd_arg' = arg
    /\ source' = IF arg = source THEN NoFd ELSE source
    /\ calls' = calls + 1
    /\ UNCHANGED << loopVars, animVars, geomVars, fenceVars, fencingVars,
                    reqVars, modVars, fill_boundary >>

InitReplace == Init /\ ~monotonic_timestamps /\ ~input

NextFd ==
    \/ OpenFence
    \/ \E arg \in FdArgs : fd_replace(arg)

SpecFd == InitReplace /\ [][NextFd]_vars

----------------------------------------------------------------------------
(* The animation progress of repaint_one_output on its own: the frame       *)
(* times of the outputs and the animation start are the inputs.             *)

\* The length of the animation loop.
ANIMATION_LOOP_DURATION_NSEC == NSEC_PER_SEC

\* The distance between neighbouring floats around a (a >= 0): a float has a
\* significand of 24 bits.
FloatUlp(a) ==
    CHOOSE u \in { 1, 2, 4, 8, 16, 32, 64, 128 } :
        /\ a \div u < 16777216
        /\ u = 1 \/ a \div u >= 8388608

\* (float) n: the nearest float, ties to the even significand.
ToFloat(n) ==
    LET a == Abs(n)
        u == FloatUlp(a)
        q == a \div u
        r == a % u
        f == IF 2 * r > u \/ (2 * r = u /\ q % 2 = 1)
             THEN (q + 1) * u ELSE q * u
    IN  IF n < 0 THEN -f ELSE f

\* An elapsed time counted in frames instead of taken from the clock.
AnimElapsed_Frames(o) == frame_num[o] * refresh_interval_nsec(o)

\* abs_delta_nsec: from the animation start to the next frame of the output.
AnimElapsed(o) == timespec_sub_to_nsec(next_frame[o], anim_start)

\* anim_progress as repaint_one_output computes it, kept as the quotient
\* num / den of two floats: 0 for the first frame, otherwise the C remainder
\* of the elapsed time, converted to float, over the loop duration.
AnimProgress(o) ==
    IF FirstFrame(o)
    THEN [num |-> 0, den |-> ToFloat(ANIMATION_LOOP_DURATION_NSEC)]
    ELSE [num |-> ToFloat(CRem(AnimElapsed(o), ANIMATION_LOOP_DURATION_NSEC)),
          den |-> ToFloat(ANIMATION_LOOP_DURATION_NSEC)]

\* The part of repaint_one_output that computes the progress and passes it
\* to buffer_fill.
RepaintProgress(o) ==
    /\ frame_num[o] < MaxFrames
    /\ anim_progress' = [anim_progress EXCEPT ![o] = AnimProgress(o)]
    /\ frame_num' = [frame_num EXCEPT ![o] = frame_num[o] + 1]
    /\ UNCHANGED << loopVars, anim_start, fdVars, geomVars, fenceVars,
                    fencingVars, reqVars, modVars, fill_boundary >>

\* Values of clock_gettime(CLOCK_MONOTONIC) at startup.
AnimStarts ==
    { Timespec(0, 500000000), Timespec(0, 6600001), Timespec(2, 100000000) }

\* Completion timestamps besides those of Timestamps.
AnimTimestamps == { [tv_sec |-> 0, tv_usec |-> 990000] }

\* last_frame and next_frame of an output: as at startup, or as the
\* completion handler leaves them after an event with timestamp ts.
FramesAfter(o, ts) ==
    [last |-> Completion(ts), next |-> PredictNextFrame(o, Completion(ts))]

FrameInputs(o) ==
    { [last |-> ZeroTime, next |-> ZeroTime] }
        \cup { FramesAfter(o, ts) : ts \in Timestamps \cup AnimTimestamps }

InitProgress ==
    /\ InitLoop /\ ~monotonic_timestamps /\ ~input
    /\ InitFd
    /\ InitGeom
    /\ InitPool /\ InitFences /\ InitFencing /\ InitReq /\ InitMods
    /\ anim_start \in AnimStarts
    /\ frame_num = [o \in Outputs |-> 0]
    /\ anim_progress = [o \in Outputs |-> NoProgress]
    /\ \E f \in [Outputs -> UNION { FrameInputs(o) : o \in Outputs }] :
          /\ \A o \in Outputs : f[o] \in FrameInputs(o)
          /\ last_frame = [o \in Outputs |-> f[o].last]
          /\ next_frame = [o \in Outputs |-> f[o].next]

NextAnim == \E o \in Outputs : RepaintProgress(o)

SpecAnim == InitProgress /\ [][NextAnim]_vars

----------------------------------------------------------------------------
(* The plane geometry of output_add_atomic_req on its own: the mode of the  *)
(* output is the input.                                                     *)

\* An unsigned int, kept as its two 16-bit halves.
U32(hi, lo) == [hi |-> hi, lo |-> lo]

\* A 16-bit or small constant value taken as unsigned int.
Widen(x) == U32(0, x)

\* A source size passed on without the shift.
Shl16_None(x) == x

\* x << 16 in unsigned int: the upper half is shifted out.
Shl16(x) == U32(x.lo, 0)

PlaneProps ==
    { "SRC_X", "SRC_Y", "SRC_W", "SRC_H", "CRTC_X", "CRTC_Y", "CRTC_W",
      "CRTC_H" }

\* buffer->width and buffer->height of a buffer created for mode m.
BufferSize(m) == [width |-> Widen(m.hdisplay), height |-> Widen(m.vdisplay)]

\* The values plane_add_prop is called with for the geometry properties.
PlaneGeometry(buffer) ==
    [p \in PlaneProps |->
        CASE p = "SRC_W"  -> Shl16(buffer.width)
          [] p = "SRC_H"  -> Shl16(buffer.height)
          [] p = "CRTC_W" -> buffer.width
          [] p = "CRTC_H" -> buffer.height
          [] OTHER        -> Widen(0)]

\* The geometry part of output_add_atomic_req.
EncodeGeometry ==
    /\ plane_props = NoProps
    /\ plane_props' = PlaneGeometry(BufferSize(mode))
    /\ UNCHANGED << mode, loopVars, fdVars, animVars, fenceVars,
                    fencingVars, reqVars, modVars, fill_boundary >>

\* hdisplay and vdisplay are 16 bits wide.
Dimensions == { 1, 320, 640, 1024, 1920, 3840, 32768, 65535 }

InitGeometry ==
    /\ InitLoop /\ ~monotonic_timestamps /\ ~input
    /\ InitFrames
    /\ InitFd
    /\ InitAnim
    /\ InitPool /\ InitFences /\ InitFencing /\ InitReq /\ InitMods
    /\ mode \in [hdisplay : Dimensions, vdisplay : Dimensions]
    /\ plane_props = NoProps

NextGeom == EncodeGeometry

SpecGeom == InitGeometry /\ [][NextGeom]_vars

\* The integer and the fractional part of a 16.16 fixed point value.
Fixed16Int(v) == v.hi

Fixed16Frac(v) == v.lo

----------------------------------------------------------------------------
(* Steps of the handlers, as they show in a transition. *)

\* repaint_one_output has run for output o: its buffer was added to the
\* request.
RepaintStep(o) ==
    /\ pc = "repaint"
    /\ Len(req') = Len(req) + 1
    /\ req'[Len(req')].output = o

\* The buffer the repaint of this step has filled and encoded.
RepaintedBuffer == req'[Len(req')].fb

\* atomic_event_handler is entered with an event for the CRTC of output o
\* while o has a pending buffer.
CompletionStep(o) ==
    /\ pc = "events"
    /\ evbuf # << >>
    /\ Head(evbuf).crtc_id = crtc_id(o)
    /\ buffer_pending[o] # NULL

\* atomic_event_handler is entered with an event whose CRTC id matches no
\* output.
UnknownStep ==
    /\ pc = "events"
    /\ evbuf # << >>
    /\ \A o \in Outputs : crtc_id(o) # Head(evbuf).crtc_id

\* The dispatch loop of main handles the readable repaint timer of output o.
TimerStep(o) ==
    /\ pc = "dispatch"
    /\ DispatchReaches(o)
    /\ o \in revents

\* The armed repaint timer of output o expires.
ExpiryStep(o) ==
    /\ pc = "poll"
    /\ ~timer_ready[o]
    /\ timer_ready'[o]

\* The state that belongs to output o: its fields and those of its buffers.
OutputState(o) ==
    << needs_repaint[o], buffer_pending[o], buffer_last[o], in_use[o],
       last_frame[o], next_frame[o], repaint_timer[o], timer_ready[o],
       commit_fence_fd[o], kms_fence_fd[o], render_fence_fd[o] >>

\* The outputs flagged for a repaint.
Flagged == { o \in Outputs : needs_repaint[o] }

\* main calls atomic_commit.
CommitStep ==
    /\ pc = "repaint"
    /\ RepaintLoopDone
    /\ Len(req) > 0
    /\ pc' \in { "poll", "out" }

InUseCount(o) == Cardinality({ b \in Buffers : in_use[o][b] })

\* Completion events of output o the kernel still owes or has queued.
Outstanding(o) ==
    inflight[o]
      + Cardinality({ k \in 1..Len(events) : events[k].crtc_id = crtc_id(o) })
      + Cardinality({ k \in 1..Len(evbuf) : evbuf[k].crtc_id = crtc_id(o) })

----------------------------------------------------------------------------
(* C1: in every reachable state and for every output, buffer_pending and   *)
(* buffer_last never reference the same buffer, and at most 2 of the       *)
(* output's 3 buffers have in_use set.                                     *)
C1_PendingNotDisplayed ==
    \A o \in Outputs :
        /\ buffer_pending[o] # NULL => buffer_pending[o] # buffer_last[o]
        /\ InUseCount(o) <= 2

C1_Witness ==
    \E o \in Outputs :
        /\ buffer_pending[o] # NULL
        /\ buffer_last[o] # NULL
        /\ InUseCount(o) = 2

(* C2: at most one commit per output is outstanding: repaint_one_output is *)
(* never run for an output whose buffer_pending is non-NULL, and no output *)
(* ever has more than one completion event owed or queued.                 *)
C2_OneOutstandingCommit ==
    [][ /\ \A o \in Outputs : RepaintStep(o) => buffer_pending[o] = NULL
        /\ \A o \in Outputs : Outstanding(o)' <= 1 ]_vars

C2_Witness ==
    /\ pc = "repaint"
    /\ \E k \in 1..Len(req) :
          /\ buffer_last[req[k].output] # NULL
          /\ buffer_pending[req[k].output] = req[k].fb
          /\ presented[req[k].output]

(* C3: whenever main is about to call repaint_one_output for an output, at *)
(* least one of its buffers has in_use == false, so find_free_buffer does  *)
(* not reach its assertion.                                                *)
C3_FreeBufferAtRepaint ==
    \A o \in Outputs :
        (pc = "repaint" /\ LoopReaches(o) /\ needs_repaint[o])
            => \E b \in Buffers : ~in_use[o][b]

C3_Witness ==
    \E o \in Outputs :
        /\ pc = "repaint" /\ LoopReaches(o) /\ needs_repaint[o]
        /\ buffer_last[o] # NULL
        /\ InUseCount(o) = 1

(* C4: the buffer repaint_one_output hands to buffer_fill is at that moment *)
(* neither the output's pending buffer nor its displayed buffer, and its    *)
(* in_use flag is false.                                                    *)
C4_FillsFreeBuffer ==
    [][ \A o \in Outputs :
          RepaintStep(o) =>
              /\ RepaintedBuffer # buffer_pending[o]
              /\ RepaintedBuffer # buffer_last[o]
              /\ ~in_use[o][RepaintedBuffer] ]_vars

C4_Witness ==
    /\ pc = "repaint"
    /\ \E k \in 1..Len(req) :
          /\ buffer_last[req[k].output] \in Buffers
          /\ req[k].fb \in Buffers \ { buffer_last[req[k].output] }

(* C5: in every state between handler invocations, a buffer's in_use flag  *)
(* is true if and only if the buffer is its output's buffer_pending or      *)
(* buffer_last.                                                             *)
C5_InUseIffReferenced ==
    \A o \in Outputs : \A b \in Buffers :
        in_use[o][b] <=> (b = buffer_pending[o] \/ b = buffer_last[o])

C5_Witness ==
    \E o \in Outputs :
        /\ buffer_pending[o] = 1
        /\ buffer_last[o] = 2
        /\ in_use[o][1] /\ in_use[o][2] /\ ~in_use[o][3]

(* C6: a completion event for a known CRTC with pending buffer P and        *)
(* displayed buffer D ends with D released (if there was one), buffer_last  *)
(* = P, buffer_pending = NULL, P still in use and the in_use flag of every  *)
(* other buffer unchanged.                                                  *)
C6_HandOff ==
    [][ \A o \in Outputs :
          CompletionStep(o) =>
              LET P == buffer_pending[o]
                  D == buffer_last[o]
              IN  /\ D # NULL => ~in_use'[o][D]
                  /\ buffer_last'[o] = P
                  /\ buffer_pending'[o] = NULL
                  /\ in_use'[o][P]
                  /\ \A b \in Buffers \ { P, D } :
                        in_use'[o][b] = in_use[o][b] ]_vars

C6_Witness ==
    \E o \in Outputs :
        /\ pc \in { "events", "input" }
        /\ buffer_last[o] = 2
        /\ buffer_pending[o] = NULL
        /\ InUseCount(o) = 1

(* C7: after a completion event with timestamp C for an output with refresh *)
(* interval R, last_frame = C and next_frame = C + R exactly, whatever      *)
(* next_frame was before.                                                   *)
C7_NextFrameFromCompletion ==
    [][ \A o \in Outputs :
          CompletionStep(o) =>
              LET ev == Head(evbuf)
                  C == ev.tv_sec * NSEC_PER_SEC + ev.tv_usec * 1000
              IN  /\ last_frame'[o].tv_sec = ev.tv_sec
                  /\ last_frame'[o].tv_nsec = ev.tv_usec * 1000
                  /\ timespec_to_nsec(next_frame'[o])
                        = C + refresh_interval_nsec(o)
                  /\ next_frame'[o].tv_nsec \in 0..(NSEC_PER_SEC - 1) ]_vars

C7_Witness ==
    /\ last_frame[1] = Timespec(1, 990000000)
    /\ next_frame[1] = Timespec(2, 6600000)
    /\ buffer_last[1] = 2

(* C8: the commit carrying the first repaint of a fresh output is submitted *)
(* with the modeset-allowed flag, and every commit carrying only second or  *)
(* later repaints is submitted without it, whatever completion timestamps   *)
(* the hardware reported.                                                   *)
C8_ModesetOnlyOnFirstCommit ==
    [][ CommitStep =>
          LET first == { o \in ReqOutputs : ~presented[o] }
          IN  /\ first # { } => AllowModeset
              /\ first = { } => ~AllowModeset ]_vars

(* C9: a completion event whose CRTC id matches no output changes no field *)
(* of any output or buffer and trips no assertion; the loop continues.      *)
C9_UnknownCrtcDropped ==
    [][ UnknownStep =>
          /\ outputVars' = outputVars
          /\ pc' \in { "events", "input" } ]_vars

C9_Witness ==
    /\ pc = "events"
    /\ evbuf # << >>
    /\ Head(evbuf).crtc_id = UnknownCrtc
    /\ buffer_pending[1] # NULL
    /\ buffer_last[1] # NULL

(* C10: find_free_buffer returns the lowest-index buffer with in_use ==     *)
(* false: with 2 of 3 buffers in flight it returns the third one, and after *)
(* a completion has promoted pending to displayed and released the old      *)
(* displayed buffer, it returns that just-released buffer.                  *)
C10_FindFreeScenario ==
    [][ \A o \in Outputs :
          /\ RepaintStep(o) =>
                /\ ~in_use[o][RepaintedBuffer]
                /\ \A c \in Buffers : c < RepaintedBuffer => in_use[o][c]
          /\ (buffer_pending[o] # NULL /\ buffer_last[o] # NULL) =>
                find_free_buffer(o)
                    \in Buffers \ { buffer_pending[o], buffer_last[o] }
          /\ (CompletionStep(o) /\ buffer_last[o] # NULL) =>
                find_free_buffer(o)' = buffer_last[o] ]_vars

C10_Witness ==
    \E o \in Outputs :
        /\ pc = "repaint"
        /\ buffer_last[o] = 1
        /\ buffer_pending[o] = 2
        /\ \E k \in 1..Len(req) : req[k].output = o /\ req[k].fb = 2

(* C11: when atomic_commit returns a non-zero result the loop is left: the *)
(* next step is the teardown, after which main has returned; no repaint,   *)
(* commit, poll or event dispatch happens in between or afterwards.         *)
C11_CommitFailureAborts ==
    [][ /\ (CommitStep /\ fatal' = "atomic_commit") => pc' = "out"
        /\ (pc = "out" /\ fatal = "atomic_commit") =>
              /\ pc' = "done"
              /\ exit_status' # NoExit
        /\ pc = "done" => pc' = "done" ]_vars

C11_Witness ==
    /\ pc = "done"
    /\ fatal = "atomic_commit"
    /\ \E o \in Outputs : presented[o]

(* C12: when drmHandleEvent on the KMS descriptor fails, the main loop is   *)
(* aborted: no further loop iteration (repaint, commit, poll) is executed  *)
(* afterwards.                                                              *)
C12_EventReadFailureAborts ==
    [][ fatal = "drmHandleEvent" => pc' # "repaint" ]_vars

(* C13: every fatal error (no usable device, buffer-pool allocation         *)
(* failure, commit submission failure, poll or event-descriptor read        *)
(* failure, timer disarm failure) makes the process exit with a non-zero    *)
(* status.                                                                  *)
C13_FatalExitsNonZero ==
    (pc = "done" /\ fatal # "none") => exit_status # 0

(* C14: when the loop ends because the exit flag was set (and no call has   *)
(* failed), no commit is in flight: buffer_pending is NULL for every output *)
(* and no completion event is owed or queued when the teardown starts.      *)
C14_NoCommitInFlightAtExit ==
    [][ (pc = "loop" /\ shall_exit /\ fatal = "none" /\ pc' = "out") =>
            \A o \in Outputs :
                /\ buffer_pending[o] = NULL
                /\ Outstanding(o) = 0 ]_vars

(* C15: an exit request raised by the SIGINT handler is never lost: once    *)
(* the flag is set it stays set, also across the poll of the input          *)
(* collaborator for ESC, and the next evaluation of the loop condition      *)
(* ends the loop.                                                           *)
C15_ExitRequestKept ==
    [][ /\ shall_exit => shall_exit'
        /\ (pc = "loop" /\ shall_exit) => pc' = "out" ]_vars

----------------------------------------------------------------------------
\* A step of fd_replace.
ReplaceStep == calls' = calls + 1

C17_ReplaceSameIdempotent ==
    [][ (ReplaceStep /\ target \in fd_open /\ fd_arg' = target) =>
          /\ target' = target
          /\ target' \in fd_open'
          /\ ebadf' = ebadf ]_vars

----------------------------------------------------------------------------
\* repaint_one_output computes the progress for output o.
ProgressStep(o) == frame_num'[o] = frame_num[o] + 1

C19_ProgressInRange ==
    \A o \in Outputs :
        anim_progress[o] # NoProgress =>
            /\ 0 <= anim_progress[o].num
            /\ anim_progress[o].num < anim_progress[o].den

----------------------------------------------------------------------------
(* C20: for every mode M (width and height within 16 bits) the plane        *)
(* geometry written by output_add_atomic_req decodes to source rectangle == *)
(* destination rectangle == (0, 0, M.hdisplay, M.vdisplay): CRTC_X/Y = 0,   *)
(* CRTC_W/H = M's dimensions, SRC_X/Y = 0 and SRC_W/H, read as 16.16 fixed  *)
(* point, equal M's dimensions with zero fractional part.                   *)
C20_GeometryRoundTrip ==
    plane_props # NoProps =>
        /\ \A p \in { "SRC_X", "SRC_Y", "CRTC_X", "CRTC_Y" } :
              plane_props[p] = U32(0, 0)
        /\ plane_props["CRTC_W"] = U32(0, mode.hdisplay)
        /\ plane_props["CRTC_H"] = U32(0, mode.vdisplay)
        /\ Fixed16Int(plane_props["SRC_W"]) = mode.hdisplay
        /\ Fixed16Frac(plane_props["SRC_W"]) = 0
        /\ Fixed16Int(plane_props["SRC_H"]) = mode.vdisplay
        /\ Fixed16Frac(plane_props["SRC_H"]) = 0

C20_Witness ==
    /\ plane_props # NoProps
    /\ mode.hdisplay = 65535
    /\ mode.vdisplay = 32768

----------------------------------------------------------------------------
C22_OneCommitPerIteration ==
    [][ /\ (pc = "loop" /\ pc' = "repaint") => req' = << >>
        /\ (pc = "repaint" /\ pc' = "repaint") =>
              /\ ReqOutputs' \cup Flagged' = ReqOutputs \cup Flagged
              /\ ReqOutputs' \cap Flagged' = { }
        /\ \A o \in Outputs :
              RepaintStep(o) => (o \in Flagged /\ o \notin ReqOutputs)
        /\ CommitStep =>
              /\ Flagged = { }
              /\ \A o \in Outputs : ReqCount(o) <= 1
              /\ pc' = "poll" =>
                    \A o \in Outputs :
                        inflight'[o] =
                            inflight[o] + (IF o \in ReqOutputs THEN 1 ELSE 0)
        /\ (\E o \in Outputs : inflight'[o] > inflight[o]) =>
              (CommitStep /\ pc' # "repaint")
        /\ (pc = "repaint" /\ pc' # "repaint" /\ Len(req) = 0) =>
              (inflight' = inflight /\ Flagged = { }) ]_vars

C22_Witness ==
    /\ pc = "repaint"
    /\ RepaintLoopDone
    /\ Len(req) = 1
    /\ \E o \in Outputs :
          /\ o \notin ReqOutputs
          /\ presented[o]
          /\ ~needs_repaint[o]

(* C24: once an output has a displayed buffer it has one in every later    *)
(* state while the loop runs: buffer_last changes only by another buffer   *)
(* taking the role, it never returns to NULL.                              *)
C24_DisplayedStays ==
    [][ \A o \in Outputs :
          (buffer_last[o] # NULL /\ pc' # "done") =>
              /\ buffer_last'[o] # NULL
              /\ buffer_last'[o] # buffer_last[o] =>
                    (CompletionStep(o) /\ buffer_last'[o] = buffer_pending[o])
      ]_vars

C24_Witness ==
    \E o \in Outputs :
        /\ pc = "events"
        /\ buffer_last[o] = 2
        /\ buffer_pending[o] = 1

(* C29: when a repaint timer is ready the dispatch sets needs_repaint of   *)
(* its output and disarms the timer, so one arming of the timer leads to   *)
(* at most one repaint until the completion handler arms it again.         *)
C29_TimerFiresOnce ==
    [][ \A o \in Outputs :
          /\ TimerStep(o) =>
                /\ needs_repaint'[o]
                /\ pc' = "out" \/ (repaint_timer'[o] = ZeroTime
                                    /\ ~timer_ready'[o])
          /\ (needs_repaint'[o] /\ ~needs_repaint[o]) => TimerStep(o)
          /\ (timer_ready'[o] /\ ~timer_ready[o]) => repaint_timer[o] # ZeroTime
          /\ (repaint_timer'[o] # ZeroTime /\ repaint_timer[o] = ZeroTime) =>
                CompletionStep(o) ]_vars

C29_Witness ==
    \E o \in Outputs :
        /\ pc = "dispatch"
        /\ i = o + 1
        /\ needs_repaint[o]
        /\ buffer_last[o] # NULL
        /\ repaint_timer[o] = ZeroTime

----------------------------------------------------------------------------
(* The main loop of a device whose first output uses explicit fencing      *)
(* (the planes and CRTCs of the others lack the fence properties), with    *)
(* the buffers filled by EGL or by the CPU.                                *)

InitFenced ==
    /\ InitBase
    /\ InitReq
    /\ ~monotonic_timestamps
    /\ ~input
    /\ explicit_fencing = [o \in Outputs |-> o = 1]
    /\ gbm_device \in BOOLEAN
    /\ vk_device = FALSE

SpecFence == InitFenced /\ [][Next]_vars

\* The same loop when a gbm device exists, so that EGL fills the buffers.
InitFencedGpu == InitFenced /\ gbm_device

SpecFenceGpu == InitFencedGpu /\ [][Next]_vars

\* Every fence slot of the program with the descriptor it holds.
FenceSlots ==
    { << "commit", o, 0, commit_fence_fd[o] >> : o \in Outputs }
      \cup { << "kms", o, b, kms_fence_fd[o][b] >> :
                o \in Outputs, b \in Buffers }
      \cup { << "render", o, b, render_fence_fd[o][b] >> :
                o \in Outputs, b \in Buffers }

----------------------------------------------------------------------------
(* The fence slots of the buffers of one output under the two GPU          *)
(* renderers: a buffer is filled, shown, and receives the out-fence of the *)
(* commit that replaces it on screen.                                      *)

\* The renderer fills buffer b of output o.
FillBuffer(o, b) ==
    /\ frame_num[o] < MaxFills
    /\ LET filled == IF vk_device THEN buffer_vk_fill(o, b)
                     ELSE buffer_egl_fill(o, b)
       IN  /\ kms_fence_fd' = [kms_fence_fd EXCEPT ![o][b] = filled.kms]
           /\ render_fence_fd' = [render_fence_fd EXCEPT ![o][b] = filled.render]
           /\ fd_open' = filled.fds
           /\ bad_close' = (bad_close \/ filled.bad)
           /\ fence_commit' =
                  [fence_commit EXCEPT ![o] = FenceAfterFill(o, b, filled)]
    /\ frame_num' = [frame_num EXCEPT ![o] = @ + 1]
    /\ UNCHANGED << loopVars, commit_fence_fd, fencingVars, reqVars, modVars, fill_boundary, target,
                    source, fd_arg, ebadf, calls, anim_start, anim_progress,
                    geomVars >>

\* Buffer b, filled before, is on screen when the kernel accepts the commit
\* of its successor (the next buffer of the pool): the out-fence of that
\* commit is moved into the kms fence slot of b with fd_replace.
DisplayFence(o, b) ==
    /\ render_fence_fd[o][b] >= 0
    /\ LET fd == NthFreeFd(fd_open, 1)
           fds == fd_open \cup { fd }
           old == kms_fence_fd[o][b]
       IN  /\ kms_fence_fd' = [kms_fence_fd EXCEPT ![o][b] = fd]
           /\ fd_open' = Closed(fds, old)
           /\ bad_close' = (bad_close \/ BadClose(fds, old))
    /\ fence_commit' =
           [fence_commit EXCEPT ![o][b] = (b % BUFFER_QUEUE_DEPTH) + 1]
    /\ UNCHANGED << loopVars, commit_fence_fd, render_fence_fd, fencingVars,
                    reqVars, modVars, fill_boundary, target, source, fd_arg, ebadf, calls, animVars,
                    geomVars >>

InitFill ==
    /\ InitBase
    /\ InitReq
    /\ ~monotonic_timestamps
    /\ ~input
    /\ explicit_fencing = [o \in Outputs |-> o = 1]
    /\ vk_device \in BOOLEAN
    /\ gbm_device = ~vk_device

NextFill ==
    \/ \E b \in Buffers : FillBuffer(1, b)
    \/ \E b \in Buffers : DisplayFence(1, b)

SpecFill == InitFill /\ [][NextFill]_vars

(* C27: every fence descriptor is held by at most one slot at a time; once *)
(* a fill has handed a display-completion fence to the render backend, the *)
(* kms_fence_fd slot of the buffer no longer holds it; no descriptor is    *)
(* closed twice or after its ownership was passed on.  This is to hold for *)
(* the EGL fill and for the Vulkan fill.                                   *)
C27_FenceOwnership ==
    /\ \A s \in FenceSlots : s[4] >= 0 => s[4] \in fd_open
    /\ \A s, t \in FenceSlots : (s # t /\ s[4] >= 0) => s[4] # t[4]
    /\ ~bad_close

----------------------------------------------------------------------------
(* output_add_atomic_req on its own: the property ids output_create has    *)
(* cached decide what the request of the first output contains.            *)

\* The properties output_add_atomic_req writes in every request.
RequiredProps ==
    { "plane.CRTC_ID", "plane.FB_ID", "plane.SRC_X", "plane.SRC_Y",
      "plane.SRC_W", "plane.SRC_H", "plane.CRTC_X", "plane.CRTC_Y",
      "plane.CRTC_W", "plane.CRTC_H", "crtc.MODE_ID", "crtc.ACTIVE",
      "connector.CRTC_ID" }

\* The properties it writes for explicit fencing only.
FenceProps == { "plane.IN_FENCE_FD", "crtc.OUT_FENCE_PTR" }

AllProps == RequiredProps \cup FenceProps

\* output->explicit_fencing as output_create computes it from the cached
\* ids; output_egl_setup clears it when EGL lacks the sync extensions.
FencingSupported(cached, renderer_ok) ==
    /\ "plane.IN_FENCE_FD" \in cached
    /\ "crtc.OUT_FENCE_PTR" \in cached
    /\ renderer_ok

\* A write that does not look at the cached id.
PropAdded_Unchecked(p) == TRUE

\* plane_add_prop, crtc_add_prop and connector_add_prop return -1 without
\* writing when the cached prop_id is 0.
PropAdded(p) == p \in props

\* What output_add_atomic_req tries to write for the buffer b of output o.
PropsToWrite(o, b) ==
    RequiredProps
      \cup (IF InFence(o, render_fence_fd[o][b]) # NoFd
            THEN { "plane.IN_FENCE_FD" } ELSE { })
      \cup (IF OutFence(o) THEN { "crtc.OUT_FENCE_PTR" } ELSE { })

output_create(renderer_ok) ==
    /\ req_ret = "none"
    /\ req_ret' = "created"
    /\ explicit_fencing' =
           [explicit_fencing EXCEPT ![1] = FencingSupported(props, renderer_ok)]
    /\ UNCHANGED << loopVars, fdVars, animVars, geomVars, fenceVars,
                    gbm_device, vk_device, props, req_props, modVars, fill_boundary >>

\* The results of the writes are or-ed into ret and assert(ret == 0) ends
\* the function.
output_add_atomic_req(o, b) ==
    /\ req_ret = "created"
    /\ req_props' = { p \in PropsToWrite(o, b) : PropAdded(p) }
    /\ req_ret' = IF \A p \in PropsToWrite(o, b) : PropAdded(p)
                  THEN "ok" ELSE "assert"
    /\ UNCHANGED << loopVars, fdVars, animVars, geomVars, fenceVars,
                    fencingVars, props, modVars, fill_boundary >>

\* The property tables the kernel may expose: all properties but a few.
PropTables ==
    { AllProps \ missing :
        missing \in { m \in SUBSET AllProps : Cardinality(m) <= MaxMissingProps } }

InitProps ==
    /\ InitBase
    /\ InitFencing
    /\ ~monotonic_timestamps
    /\ ~input
    /\ props \in PropTables
    /\ req_props = { }
    /\ req_ret = "none"

NextReq ==
    \/ \E renderer_ok \in BOOLEAN : output_create(renderer_ok)
    \/ (req_ret = "created" /\ FillBuffer(1, 1))
    \/ output_add_atomic_req(1, 1)

SpecReq == InitProps /\ [][NextReq]_vars

(* C25: output_add_atomic_req fails (its final assertion is violated) when *)
(* a required plane, CRTC or connector property has no cached id; when     *)
(* explicit_fencing is false because the fencing properties are absent it  *)
(* succeeds and the request has neither an IN_FENCE_FD nor an              *)
(* OUT_FENCE_PTR write.                                                    *)
C25_RequiredProps ==
    req_ret \in { "ok", "assert" } =>
        /\ req_ret = "assert" <=> (\E p \in RequiredProps : p \notin props)
        /\ req_ret = "ok" => RequiredProps \subseteq req_props
        /\ (req_ret = "ok" /\ ~explicit_fencing[1]) =>
              req_props \cap FenceProps = { }
        /\ (FenceProps \cap props # FenceProps) => ~explicit_fencing[1]

C25_Witness ==
    /\ req_ret = "ok"
    /\ ~explicit_fencing[1]
    /\ "crtc.OUT_FENCE_PTR" \notin props
    /\ "plane.IN_FENCE_FD" \in props
    /\ req_props = RequiredProps

----------------------------------------------------------------------------
(* C23: the outputs are independent: a repaint, a timer expiry or a        *)
(* completion event of output a changes no state of another output b (the *)
(* in_use flags of its buffers, buffer_pending, buffer_last, last_frame,   *)
(* next_frame, needs_repaint, its timer, its fences).                      *)
C23_OutputsIndependent ==
    [][ \A a \in Outputs :
          (RepaintStep(a) \/ ExpiryStep(a) \/ TimerStep(a) \/ CompletionStep(a))
              => \A b \in Outputs \ { a } : OutputState(b)' = OutputState(b)
      ]_vars

C23_Witness ==
    \E b \in Outputs \ { 1 } :
        /\ pc = "events"
        /\ evbuf # << >>
        /\ Head(evbuf).crtc_id = crtc_id(b)
        /\ buffer_pending[b] # NULL
        /\ buffer_pending[1] # NULL
        /\ buffer_last[1] # NULL
        /\ kms_fence_fd[1][buffer_last[1]] >= 0
        /\ render_fence_fd[1][buffer_pending[1]] >= 0

(* C26: if the creation of one of the 3 buffers of an output fails at      *)
(* startup, the main loop is never entered (no repaint, no commit), every  *)
(* buffer created before the failure is destroyed exactly once during the  *)
(* teardown, and the process exits with a non-zero status.                 *)
C26_FailedPoolTornDown ==
    /\ \A o \in Outputs, b \in Buffers : destroyed[o][b] <= 1
    /\ (pc # "start" /\ \E o \in Outputs : buffers[o] # Buffers) =>
          /\ pc \in { "out", "done" }
          /\ req = << >>
          /\ \A o \in Outputs :
                /\ inflight[o] = 0
                /\ ~presented[o]
                /\ buffer_pending[o] = NULL
          /\ pc = "out" =>
                /\ main_ret # 0
                /\ \A o \in Outputs, b \in Buffers : destroyed[o][b] = 0
          /\ pc = "done" =>
                /\ exit_status # 0
                /\ exit_status # NoExit
                /\ \A o \in Outputs, b \in Buffers :
                      destroyed[o][b] = IF b \in buffers[o] THEN 1 ELSE 0

C26_Witness ==
    /\ pc = "done"
    /\ fatal = "buffer_create"
    /\ exit_status = 3
    /\ \E o \in Outputs :
          /\ buffers[o] = { 1, 2 }
          /\ destroyed[o] = [b \in Buffers |-> IF b = 3 THEN 0 ELSE 1]
          /\ \A p \in Outputs : p < o => destroyed[p] = [b \in Buffers |-> 1]

(* C28: a buffer is encoded into a commit only after its fill has          *)
(* returned; with explicit fencing on a GPU-rendered output the            *)
(* IN_FENCE_FD of the request is the render fence that same fill has       *)
(* produced.                                                               *)
C28_InFenceOfThisFill ==
    [][ \A o \in Outputs :
          RepaintStep(o) =>
              LET e == req'[Len(req')]
              IN  /\ e.out_fence = explicit_fencing[o]
                  /\ IF explicit_fencing[o] /\ gbm_device
                     THEN /\ e.in_fence >= 0
                          /\ e.in_fence = render_fence_fd'[o][e.fb]
                          /\ e.in_fence \in fd_open'
                          /\ e.in_fence # render_fence_fd[o][e.fb]
                          /\ render_fence_fd[o][e.fb] \notin fd_open'
                     ELSE e.in_fence = NoFd ]_vars

C28_Witness ==
    /\ pc = "repaint"
    /\ gbm_device
    /\ \E k \in 1..Len(req) :
          /\ req[k].output = 1
          /\ req[k].fb = 1
          /\ req[k].in_fence >= 0
          /\ buffer_last[1] = 2

(* C30: after the commit step of an iteration, for every output with       *)
(* explicit fencing, a valid commit_fence_fd and a displayed buffer, the   *)
(* out-fence has been moved into kms_fence_fd of buffer_last (the fence    *)
(* that slot held before is closed) and commit_fence_fd is -1; the other   *)
(* outputs are unchanged.                                                  *)
C30_OutFenceHandedOver ==
    [][ (pc = "repaint" /\ pc' = "poll") =>
          /\ \A o \in Outputs :
                LET cf == AfterCommit(0)[o]
                    last == buffer_last[o]
                IN  IF explicit_fencing[o] /\ cf >= 0 /\ last # NULL
                    THEN /\ kms_fence_fd'[o][last] = cf
                         /\ cf \in fd_open'
                         /\ commit_fence_fd'[o] = NoFd
                         /\ kms_fence_fd[o][last] >= 0 =>
                               kms_fence_fd[o][last] \notin fd_open'
                         /\ \A b \in Buffers \ { last } :
                               kms_fence_fd'[o][b] = kms_fence_fd[o][b]
                    ELSE /\ commit_fence_fd'[o] = cf
                         /\ kms_fence_fd'[o] = kms_fence_fd[o]
          /\ render_fence_fd' = render_fence_fd ]_vars

C30_Witness ==
    /\ pc = "poll"
    /\ ~gbm_device
    /\ buffer_last[1] = 1
    /\ commit_fence_fd[1] = NoFd
    /\ kms_fence_fd[1][1] = 2
    /\ kms_fence_fd[1][2] = 1
    /\ 0 \notin fd_open

----------------------------------------------------------------------------
(* The completion handler on early and late frames: main sleeps in poll()  *)
(* with a commit of every output in flight, and the kernel delivers        *)
(* completion times at, near and far from the predicted ones.              *)

\* Completion times of the frame before the one in flight.
DriftPrevious ==
    { [tv_sec |-> 1, tv_usec |-> 0], [tv_sec |-> 0, tv_usec |-> 999500] }

\* Completion times the kernel reports for the frame in flight.
DriftTimestamps ==
    { [tv_sec |-> 1, tv_usec |-> 16600],
      [tv_sec |-> 1, tv_usec |-> 17100],
      [tv_sec |-> 1, tv_usec |-> 17101],
      [tv_sec |-> 1, tv_usec |-> 990000] }

\* An output with a commit in flight: its first frame, or a later frame
\* with the other buffer of the pair on screen.
DriftInputs(o) ==
    { [last |-> ZeroTime, next |-> ZeroTime, pending |-> 1, shown |-> NULL] }
        \cup { [last |-> Completion(ts),
                next |-> timespec_add_nsec(Completion(ts),
                                           refresh_interval_nsec(o)),
                pending |-> p, shown |-> 3 - p] :
                    ts \in DriftPrevious, p \in { 1, 2 } }

InitDrift ==
    /\ InitFd /\ InitAnim /\ InitGeom /\ InitFences /\ InitFencing /\ InitReq
    /\ InitMods
    /\ buffers = [o \in Outputs |-> Buffers]
    /\ destroyed = [o \in Outputs |-> [b \in Buffers |-> 0]]
    /\ \E f \in [Outputs -> UNION { DriftInputs(o) : o \in Outputs }] :
          /\ \A o \in Outputs : f[o] \in DriftInputs(o)
          /\ last_frame = [o \in Outputs |-> f[o].last]
          /\ next_frame = [o \in Outputs |-> f[o].next]
          /\ buffer_pending = [o \in Outputs |-> f[o].pending]
          /\ buffer_last = [o \in Outputs |-> f[o].shown]
          /\ in_use = [o \in Outputs |->
                          [b \in Buffers |-> b \in { f[o].pending, f[o].shown }]]
    /\ needs_repaint = [o \in Outputs |-> FALSE]
    /\ repaint_timer = [o \in Outputs |-> ZeroTime]
    /\ timer_ready = [o \in Outputs |-> FALSE]
    /\ monotonic_timestamps \in BOOLEAN
    /\ input = FALSE
    /\ shall_exit = FALSE
    /\ pc = "poll"
    /\ i = 0
    /\ req = << >>
    /\ needs_modeset = FALSE
    /\ revents = {}
    /\ events = << >>
    /\ evbuf = << >>
    /\ inflight = [o \in Outputs |-> 1]
    /\ presented = [o \in Outputs |-> TRUE]
    /\ fatal = "none"
    /\ main_ret = 0
    /\ exit_status = NoExit

NextDrift ==
    \/ \E o \in Outputs, ts \in DriftTimestamps : FlipComplete(o, ts)
    \/ PollReturn
    \/ \E ok \in BOOLEAN : drmHandleEvent(ok)
    \/ atomic_event_handler

SpecDrift == InitDrift /\ [][NextDrift]_vars

(* C31: frame-time drift is informational only.  What a completion event   *)
(* leaves in an output (last_frame, next_frame, the buffer hand-off, the   *)
(* value the timer is armed with) is determined by the timestamp of the    *)
(* event and the buffers of the output; the previous prediction next_frame *)
(* and the distance of the completion from it, within the tolerance or     *)
(* beyond, make no difference.                                             *)
C31_DriftInformational ==
    [][ \A o \in Outputs :
          (CompletionStep(o) /\ HandlerAsserts(o)) =>
              LET ev == Head(evbuf)
                  C == ev.tv_sec * NSEC_PER_SEC + ev.tv_usec * 1000
                  T == C + refresh_interval_nsec(o) - RENDER_LEEWAY_NSEC
              IN  /\ timespec_to_nsec(last_frame'[o]) = C
                  /\ timespec_to_nsec(next_frame'[o])
                        = C + refresh_interval_nsec(o)
                  /\ buffer_last'[o] = buffer_pending[o]
                  /\ buffer_pending'[o] = NULL
                  /\ \A b \in Buffers : in_use'[o][b] <=> b = buffer_pending[o]
                  /\ ~monotonic_timestamps =>
                        repaint_timer'[o] = Timespec(0, 1)
                  /\ (monotonic_timestamps /\ T >= 0) =>
                        timespec_to_nsec(repaint_timer'[o]) = T
                  /\ (monotonic_timestamps /\ T < 0) =>
                        repaint_timer'[o] = repaint_timer[o] ]_vars

\* A completion that misses the prediction of its output by more than the
\* tolerance is about to be handled, with a timestamp that meets the
\* prediction made from another previous frame.
C31_Witness ==
    /\ pc = "events"
    /\ \E o \in Outputs :
          /\ Head(evbuf).crtc_id = crtc_id(o)
          /\ Head(evbuf).tv_usec = 17100
          /\ FrameDrift(o, Completion(Head(evbuf)))
          /\ buffer_last[o] # NULL
          /\ buffer_pending[o] # NULL

----------------------------------------------------------------------------
(* The loop without exit request and without failing calls, under the      *)
(* scheduling it relies on: the program takes its next step whenever it    *)
(* has one, the hardware completes every commit in flight, and every armed *)
(* timer expires.                                                          *)

InitLive == Init /\ ~input

\* The steps of main and its handlers when every call succeeds.
ProgramStep ==
    \/ Startup("none")
    \/ LoopEnter
    \/ \E o \in Outputs : repaint_one_output(o)
    \/ atomic_commit(0)
    \/ CommitSkip
    \/ PollReturn
    \/ \E o \in Outputs : TimerDispatch(o, TRUE)
    \/ DispatchDone
    \/ drmHandleEvent(TRUE)
    \/ atomic_event_handler
    \/ \E esc \in BOOLEAN : InputCheck(esc)

NextLive ==
    \/ ProgramStep
    \/ \E o \in Outputs, ts \in Timestamps : FlipComplete(o, ts)
    \/ \E o \in Outputs : TimerExpire(o)

Fairness ==
    /\ WF_vars(ProgramStep)
    /\ \A o \in Outputs : SF_vars(\E ts \in Timestamps : FlipComplete(o, ts))
    /\ \A o \in Outputs : SF_vars(TimerExpire(o))

SpecLive == InitLive /\ [][NextLive]_vars /\ Fairness

----------------------------------------------------------------------------
(* The repaint cycle of an output. *)

\* The conditions of the cycle that hold for an output.
Phase(o) ==
    (IF needs_repaint[o] THEN { "needs_repaint" } ELSE { })
        \cup (IF buffer_pending[o] # NULL THEN { "pending" } ELSE { })
        \cup (IF repaint_timer[o] # ZeroTime THEN { "timer" } ELSE { })

\* The condition that follows a condition in the cycle.
NextPhase(c) ==
    CASE c = "needs_repaint" -> "pending"
      [] c = "pending"       -> "timer"
      [] c = "timer"         -> "needs_repaint"

\* The completion handler is entered for output o with a timestamp for
\* which timerfd_settime rejects the computed timer value.
ArmFails(o) ==
    /\ CompletionStep(o)
    /\ RepaintTime(o, PredictNextFrame(o, Completion(Head(evbuf)))).tv_sec < 0

\* main is in its loop (or about to enter it), between two handler calls.
InLoop == pc \in { "start", "loop", "repaint", "poll", "dispatch", "events",
                   "input" }

(* C33: as long as arming the repaint timer succeeds, every output is, at  *)
(* every point of the loop between two handler calls, in exactly one of    *)
(* three conditions: needs_repaint set, a commit pending (buffer_pending   *)
(* non-NULL), or its repaint timer armed; an output leaves a condition     *)
(* only for the next one in that cyclic order.                             *)
C33_RepaintCycle ==
    /\ \A o \in Outputs : Phase(o) = { "needs_repaint" }
    /\ [][ \A o \in Outputs :
             (Cardinality(Phase(o)) = 1 /\ InLoop /\ InLoop' /\ ~ArmFails(o)) =>
                 /\ Cardinality(Phase(o)') = 1
                 /\ Phase(o)' # Phase(o) =>
                       \E c \in Phase(o) : Phase(o)' = { NextPhase(c) } ]_vars

\* Output 1 has gone round the cycle twice and waits for its timer while
\* output 2 is flagged again.
C33_Witness ==
    /\ pc = "dispatch"
    /\ Phase(1) = { "timer" }
    /\ buffer_last[1] = 2
    /\ Phase(2) = { "needs_repaint" }
    /\ buffer_last[2] # NULL

(* C34: at every repaint at most one buffer of the output is in use, the   *)
(* displayed one, so find_free_buffer only returns the first two buffers   *)
(* of the pool, in turn; the third buffer is never rendered to, committed  *)
(* or shown.                                                               *)
C34_TwoBuffersAlternate ==
    [][ \A o \in Outputs :
          /\ RepaintStep(o) =>
                /\ InUseCount(o) <= 1
                /\ \A b \in Buffers : in_use[o][b] => b = buffer_last[o]
                /\ RepaintedBuffer \in { 1, 2 }
                /\ buffer_last[o] # NULL => RepaintedBuffer = 3 - buffer_last[o]
                /\ buffer_last[o] = NULL => RepaintedBuffer = 1
          /\ ~in_use'[o][BUFFER_QUEUE_DEPTH]
          /\ buffer_pending'[o] # BUFFER_QUEUE_DEPTH
          /\ buffer_last'[o] # BUFFER_QUEUE_DEPTH ]_vars

\* The third repaint of an output: the first buffer is committed again
\* while the second is on screen.
C34_Witness ==
    \E o \in Outputs :
        /\ pc = "repaint"
        /\ buffer_last[o] = 2
        /\ buffer_pending[o] = 1
        /\ InUseCount(o) = 2
        /\ \E k \in 1..Len(req) : req[k].output = o /\ req[k].fb = 1

(* C35: with explicit fencing, a buffer that is passed to buffer_fill with *)
(* a valid kms_fence_fd holds there the out-fence of the commit that       *)
(* replaced it on screen, the commit of the buffer now displayed, and      *)
(* never the out-fence of the commit that put the buffer itself on screen. *)
C35_FenceOfReplacingCommit ==
    [][ \A o \in Outputs :
          (RepaintStep(o) /\ explicit_fencing[o]
                /\ kms_fence_fd[o][RepaintedBuffer] >= 0) =>
              /\ fence_commit[o][RepaintedBuffer] # RepaintedBuffer
              /\ fence_commit[o][RepaintedBuffer] # NULL
              /\ fence_commit[o][RepaintedBuffer] = buffer_last[o]
              /\ kms_fence_fd[o][RepaintedBuffer] \in fd_open ]_vars

\* Buffer 1 has been filled and committed a second time while its
\* kms_fence_fd held the out-fence of the commit of buffer 2; buffer 2, on
\* screen, has received the out-fence of this commit.
C35_Witness ==
    \E o \in Outputs :
        /\ explicit_fencing[o]
        /\ pc = "poll"
        /\ buffer_last[o] = 2
        /\ buffer_pending[o] = 1
        /\ kms_fence_fd[o][2] >= 0
        /\ fence_commit[o][2] = 1
        /\ gbm_device => kms_fence_fd[o][1] = NoFd

(* C36: with one completion event per commit and output, the assertions    *)
(* of the completion handler hold whenever it is called for the CRTC of an *)
(* output: buffer_pending is non-NULL and in use, and buffer_last, when    *)
(* non-NULL, is in use.                                                    *)
C36_HandlerAssertionsHold ==
    (pc = "events" /\ evbuf # << >>) =>
        \A o \in Outputs :
            Head(evbuf).crtc_id = crtc_id(o) =>
                /\ Outstanding(o) = 1
                /\ buffer_pending[o] # NULL
                /\ in_use[o][buffer_pending[o]]
                /\ buffer_last[o] # NULL => in_use[o][buffer_last[o]]

\* The handler is about to be called for two outputs in a row, each with a
\* displayed and a pending buffer.
C36_Witness ==
    /\ pc = "events"
    /\ Len(evbuf) = 2
    /\ evbuf[1].crtc_id # evbuf[2].crtc_id
    /\ \A k \in 1..2 : \E o \in Outputs :
          /\ evbuf[k].crtc_id = crtc_id(o)
          /\ buffer_last[o] # NULL
          /\ buffer_pending[o] # NULL

(* C37: the modeset-allowed flag is decided once for the whole commit      *)
(* batch, and a batch submitted with it never contains an output that has  *)
(* already completed a frame: only the first batch, with the first repaint *)
(* of every output, carries the flag.                                      *)
C37_ModesetFirstBatchOnly ==
    [][ (CommitStep /\ AllowModeset) =>
          /\ ReqOutputs = Outputs
          /\ \A o \in ReqOutputs :
                /\ buffer_last[o] = NULL
                /\ ~presented[o] ]_vars

(* C38: whenever OUT_FENCE_PTR is added to a request for an output,        *)
(* commit_fence_fd is -1 and a descriptor it held before is closed and was *)
(* not handed to a buffer; the kernel stores an out-fence only into an     *)
(* empty commit_fence_fd; a valid commit_fence_fd, that of the first       *)
(* commit included, only changes by being moved into kms_fence_fd of the   *)
(* displayed buffer or by being closed, and no open fence descriptor is    *)
(* without a slot that holds it.                                           *)
C38_OutFenceSlotFree ==
    [][ \A o \in Outputs :
          /\ (RepaintStep(o) /\ req'[Len(req')].out_fence) =>
                /\ commit_fence_fd'[o] = NoFd
                /\ commit_fence_fd[o] >= 0 =>
                      /\ commit_fence_fd[o] \notin fd_open'
                      /\ \A b \in Buffers :
                            kms_fence_fd[o][b] # commit_fence_fd[o]
          /\ (CommitStep /\ o \in OutFenceOutputs) =>
                commit_fence_fd[o] = NoFd
          /\ (commit_fence_fd[o] >= 0 /\ pc' # "done"
                /\ commit_fence_fd'[o] # commit_fence_fd[o]) =>
                \/ /\ buffer_last[o] # NULL
                   /\ kms_fence_fd'[o][buffer_last[o]] = commit_fence_fd[o]
                   /\ commit_fence_fd'[o] = NoFd
                   /\ commit_fence_fd[o] \in fd_open'
                \/ /\ RepaintStep(o)
                   /\ commit_fence_fd[o] \notin fd_open'
          /\ \A fd \in fd_open' : \E s \in FenceSlots' : s[4] = fd ]_vars

\* OUT_FENCE_PTR was added for the second commit of an output whose first
\* out-fence has been moved into kms_fence_fd of the displayed buffer.
C38_Witness ==
    \E o \in Outputs :
        /\ pc = "repaint"
        /\ \E k \in 1..Len(req) : req[k].output = o /\ req[k].out_fence
        /\ buffer_last[o] = 1
        /\ buffer_pending[o] = 2
        /\ commit_fence_fd[o] = NoFd
        /\ kms_fence_fd[o][1] \in fd_open
        /\ fence_commit[o][1] = 1

----------------------------------------------------------------------------
(* plane_formats_populate on its own: the IN_FORMATS blob of the plane is  *)
(* the input.  A blob lists the formats of the plane and its modifiers;    *)
(* each modifier entry has a 64-bit mask of the formats it is valid for,   *)
(* bit k standing for the format at index offset + k.                      *)

\* Entries of the format list of a blob.
MaxFormats == 2

\* Entries of the modifier list of a blob.
MaxModifiers == 2

\* fourcc_code('X', 'R', '2', '4')
DRM_FORMAT_XRGB8888 == 875713112

\* The formats a plane may list: XRGB8888, ARGB8888 and RGB565.
BlobFormats == { DRM_FORMAT_XRGB8888, 875713089, 909199186 }

\* Bit k of a format mask.
Bit(mask, k) == (mask \div (2 ^ k)) % 2 = 1

\* The condition under which the loop stores modifier entry m (counted from
\* 0) while it is at format index f.
ModifierKept(blob, f, m) ==
    LET mod == blob.modifiers[m + 1]
    IN  /\ ~((m < mod.offset) \/ (m > mod.offset + 63))
        /\ Bit(mod.formats, m - mod.offset)

RECURSIVE ModifiersFrom(_, _, _)
\* The inner loop from modifier entry m on.
ModifiersFrom(blob, f, m) ==
    IF m >= Len(blob.modifiers) THEN << >>
    ELSE (IF ModifierKept(blob, f, m)
          THEN << blob.modifiers[m + 1].modifier >> ELSE << >>)
            \o ModifiersFrom(blob, f, m + 1)

RECURSIVE FormatsFrom(_, _)
\* The outer loop from format index f on.
FormatsFrom(blob, f) ==
    IF f >= Len(blob.formats) THEN << >>
    ELSE (IF blob.formats[f + 1] # DRM_FORMAT_XRGB8888 THEN << >>
          ELSE ModifiersFrom(blob, f, 0))
            \o FormatsFrom(blob, f + 1)

\* A plane without IN_FORMATS leaves output->modifiers empty.
plane_formats_populate ==
    /\ ~formats_done
    /\ formats_done' = TRUE
    /\ modifiers' = modifiers \o FormatsFrom(in_formats, 0)
    /\ UNCHANGED << in_formats, fill_boundary, loopVars, fdVars, animVars,
                    geomVars, fenceVars, fencingVars, reqVars >>

\* Format lists: up to MaxFormats different formats in any order.
FormatLists ==
    { l \in UNION { [1..n -> BlobFormats] : n \in 1..MaxFormats } :
        \A j, k \in 1..Len(l) : j # k => l[j] # l[k] }

\* Modifier lists: entry m has the modifier m (0 is DRM_FORMAT_MOD_LINEAR),
\* an offset of 0 or 64 and any mask over the first MaxFormats formats.
ModifierLists ==
    UNION { { l \in [1..n -> [modifier : 0..(MaxModifiers - 1),
                              offset : { 0, 64 },
                              formats : 0..(2 ^ MaxFormats - 1)]] :
                \A m \in 1..n : l[m].modifier = m - 1 } :
            n \in 1..MaxModifiers }

Blobs ==
    { NoBlob } \cup
        { [formats |-> fl, modifiers |-> ml] :
            fl \in FormatLists, ml \in ModifierLists }

InitFormats ==
    /\ InitLoop /\ InitFrames /\ InitFd /\ InitAnim /\ InitGeom
    /\ InitPool /\ InitFences /\ InitFencing /\ InitReq
    /\ ~monotonic_timestamps
    /\ ~input
    /\ in_formats \in Blobs
    /\ modifiers = << >>
    /\ formats_done = FALSE
    /\ fill_boundary = [o \in Outputs |-> NoBoundary]

NextFormats == plane_formats_populate

SpecFormats == InitFormats /\ [][NextFormats]_vars

\* The modifier entries of a blob that are valid for XRGB8888: bit
\* f - offset of the mask is set, f being the index of XRGB8888 in the
\* format list.
ValidForXRGB(blob) ==
    { m \in 1..Len(blob.modifiers) :
        \E f \in 0..(Len(blob.formats) - 1) :
            /\ blob.formats[f + 1] = DRM_FORMAT_XRGB8888
            /\ f >= blob.modifiers[m].offset
            /\ f <= blob.modifiers[m].offset + 63
            /\ Bit(blob.modifiers[m].formats, f - blob.modifiers[m].offset) }

(* C39: plane_formats_populate stores in output->modifiers exactly the     *)
(* modifiers of the IN_FORMATS blob that are valid for XRGB8888: those     *)
(* whose format mask has, relative to the entry's offset, the bit of the   *)
(* index of XRGB8888 in the format list set.                               *)
C39_ModifiersOfXRGB ==
    formats_done =>
        { modifiers[k] : k \in 1..Len(modifiers) }
            = { in_formats.modifiers[m].modifier : m \in ValidForXRGB(in_formats) }

----------------------------------------------------------------------------
(* The CPU fill of buffer_fill on its own: an output with dumb buffers     *)
(* whose frames complete and which is repainted with the progress of the   *)
(* animation.                                                              *)

\* #define NUM_ANIM_FRAMES 240
NUM_ANIM_FRAMES == 240

\* output->frame_num: zeroed by the calloc of output_create; no statement
\* of the program writes it.
output_frame_num(o) == 0

\* The int parameter frame_num of buffer_fill when it is called with the
\* float anim_progress: the conversion truncates.
FillArg(progress) == CDiv(progress.num, progress.den)

\* The quadrant boundaries the CPU loop of buffer_fill writes: the first
\* column and the first row with a set colour component.
DumbBoundary(o, frame) ==
    [x |-> (mode.hdisplay * output_frame_num(o)) \div NUM_ANIM_FRAMES,
     y |-> (mode.vdisplay * output_frame_num(o)) \div NUM_ANIM_FRAMES]

\* The times the completion handler stores for a completed frame.
FrameDone(o, ts) ==
    /\ last_frame' = [last_frame EXCEPT ![o] = FramesAfter(o, ts).last]
    /\ next_frame' = [next_frame EXCEPT ![o] = FramesAfter(o, ts).next]
    /\ UNCHANGED << needs_repaint, buffer_pending, buffer_last, in_use,
                    repaint_timer, timer_ready, monotonic_timestamps, input,
                    shall_exit, pc, i, req, needs_modeset, revents, events,
                    evbuf, inflight, presented, fatal, main_ret, exit_status,
                    poolVars, fdVars, animVars, geomVars, fenceVars,
                    fencingVars, reqVars, modVars, fill_boundary >>

\* The part of repaint_one_output that computes the progress and fills a
\* dumb buffer with it.
DumbRepaint(o) ==
    /\ ~gbm_device
    /\ frame_num[o] < MaxFrames
    /\ anim_progress' = [anim_progress EXCEPT ![o] = AnimProgress(o)]
    /\ frame_num' = [frame_num EXCEPT ![o] = frame_num[o] + 1]
    /\ fill_boundary' =
           [fill_boundary EXCEPT
               ![o] = DumbBoundary(o, FillArg(AnimProgress(o)))]
    /\ UNCHANGED << loopVars, anim_start, fdVars, geomVars, fenceVars,
                    fencingVars, reqVars, modVars >>

\* Modes of the outputs.
DumbModes ==
    { [hdisplay |-> 640, vdisplay |-> 480],
      [hdisplay |-> 1920, vdisplay |-> 1080] }

InitDumb ==
    /\ InitLoop /\ ~monotonic_timestamps /\ ~input
    /\ InitFrames
    /\ InitFd /\ InitPool /\ InitFences /\ InitReq /\ InitMods
    /\ explicit_fencing = [o \in Outputs |-> FALSE]
    /\ gbm_device = FALSE
    /\ vk_device = FALSE
    /\ anim_start \in AnimStarts
    /\ frame_num = [o \in Outputs |-> 0]
    /\ anim_progress = [o \in Outputs |-> NoProgress]
    /\ mode \in DumbModes
    /\ plane_props = NoProps

NextDumb ==
    \/ \E o \in Outputs, ts \in Timestamps \cup AnimTimestamps :
          FrameDone(o, ts)
    \/ \E o \in Outputs : DumbRepaint(o)

SpecDumb == InitDumb /\ [][NextDumb]_vars

(* C40: the CPU path of buffer_fill renders the animation step it is       *)
(* given: when the progress passed for a frame has advanced by at least    *)
(* one pixel column since the previous fill of the output, the quadrant    *)
(* boundary written to the buffer has advanced too.                        *)
C40_FillFollowsProgress ==
    [][ \A o \in Outputs :
          (/\ ProgressStep(o)
           /\ fill_boundary[o] # NoBoundary
           /\ anim_progress'[o].num - anim_progress[o].num
                 >= anim_progress'[o].den \div mode.hdisplay) =>
              fill_boundary'[o].x > fill_boundary[o].x ]_vars

====
